---------------------------- MODULE Spec2Model ----------------------------
(***************************************************************************)
(* Model of the loan engine of src/src/lib/calculations.ts:                *)
(*   calculateLoanPayment, calculateLoanWithExtraPayments,                 *)
(*   generateAmortizationSchedule, generateAmortizationScheduleWithExtra.  *)
(*                                                                         *)
(* Numbers.  The code computes in IEEE-754 doubles.  The model computes    *)
(* the same expressions, in the same order, over exact rationals: a number *)
(* is a pair <<n, d>> in lowest terms with d > 0.  Rounding of doubles is  *)
(* not modelled; the loans of the model are chosen so that every           *)
(* intermediate value fits 32-bit integers.                                 *)
(*                                                                         *)
(* Control.  A driver calls the functions one after the other on the       *)
(* same loan and policy, the two generators once per periodType; every     *)
(* loop of the code advances by one iteration per step, and the constants  *)
(* a function computes on entry are kept with its locals.                  *)
(***************************************************************************)
EXTENDS Integers, Sequences, FiniteSets, TLC

(***************************************************************************)
(* Exact arithmetic on JavaScript numbers                                  *)
(***************************************************************************)
Abs(x) == IF x < 0 THEN -x ELSE x

\* greatest common divisor of a >= 0 and b >= 0 (Euclid, four steps a level)
RECURSIVE GCD(_, _)
GCD(a, b) ==
    IF b = 0 THEN a
    ELSE LET c == a % b IN IF c = 0 THEN b
    ELSE LET d == b % c IN IF d = 0 THEN c
    ELSE LET e == c % d IN IF e = 0 THEN d
    ELSE GCD(d, e)

LCM(a, b) == (a \div GCD(a, b)) * b

\* the number n/d (d # 0) in lowest terms with a positive denominator
Rat(n, d) ==
    LET s == IF d < 0 THEN -1 ELSE 1
        g == GCD(Abs(n), Abs(d))
    IN  <<(s * n) \div g, Abs(d) \div g>>

Num(k)  == <<k, 1>>
Zero    == <<0, 1>>
One     == <<1, 1>>

\* x + y
Add(x, y) ==
    LET l == LCM(x[2], y[2])
    IN  Rat(x[1] * (l \div x[2]) + y[1] * (l \div y[2]), l)

\* x - y
Sub(x, y) ==
    LET l == LCM(x[2], y[2])
    IN  Rat(x[1] * (l \div x[2]) - y[1] * (l \div y[2]), l)

\* x * y
Mul(x, y) ==
    LET g1 == GCD(Abs(x[1]), y[2])
        g2 == GCD(Abs(y[1]), x[2])
    IN  <<(x[1] \div g1) * (y[1] \div g2), (x[2] \div g2) * (y[2] \div g1)>>

\* the NaN of 0 / 0
NaN == <<0, 0>>

\* x / y; x / 0 is NaN for x = 0 and an infinity <<1, 0>> or <<-1, 0>> otherwise
Div(x, y) ==
    IF y[1] = 0
    THEN (IF x[1] = 0 THEN NaN ELSE IF x[1] < 0 THEN <<-1, 0>> ELSE <<1, 0>>)
    ELSE Mul(x, IF y[1] < 0 THEN <<-y[2], -y[1]>> ELSE <<y[2], y[1]>>)

\* x < y: by the whole parts, and by the fractional parts when those agree
Lt(x, y) ==
    LET fx == x[1] \div x[2]
        fy == y[1] \div y[2]
        g  == GCD(x[2], y[2])
    IN  IF fx # fy THEN fx < fy
        ELSE (x[1] % x[2]) * (y[2] \div g) < (y[1] % y[2]) * (x[2] \div g)

\* x <= y, x > y
Le(x, y) == ~Lt(y, x)
Gt(x, y) == Lt(y, x)

\* Math.min, Math.max
Min(x, y) == IF Lt(y, x) THEN y ELSE x
Max(x, y) == IF Lt(x, y) THEN y ELSE x

\* x to the power k for a natural number k, by repeated squaring
RECURSIVE IntPow(_, _)
IntPow(x, k) ==
    IF k = 0 THEN One
    ELSE LET h == IntPow(x, k \div 2)
         IN  IF k % 2 = 0 THEN Mul(h, h) ELSE Mul(x, Mul(h, h))

\* Math.pow(x, n) for a whole exponent n >= 0 (n is a number <<k, 1>>)
Pow(x, n) == IntPow(x, n[1])

IsWhole(x) == x[2] = 1


(***************************************************************************)
(* Inputs: the loans and extra-payment policies the functions are run on   *)
(***************************************************************************)
\* bounds of the input space
MaxYears      == 2      \* interest-free loans run over 1..MaxYears whole years
MaxExtraTens  == 6      \* extra amounts 0, 10, ..., 10 * MaxExtraTens

Loan(p, rate, y) == [principal |-> p, annualRate |-> rate, years |-> y]

\* interest-free loans over whole years
WholeYearLoans ==
    { Loan(Num(1200), Zero, Num(y)) : y \in 1..MaxYears }

\* interest-bearing loans: 1200% over one year (monthly rate 1), 600% and
\* 120% over three months (monthly rates 1/2 and 1/10), 12% over two months
InterestLoans ==
    { Loan(Num(4095), Num(1200), One),
      Loan(Num(38), Num(600), <<1, 4>>),
      Loan(Num(3310), Num(120), <<1, 4>>),
      Loan(Num(20100), Num(12), <<1, 6>>) }

\* principals near the epsilon, a term that is no whole number of months,
\* and the non-positive principal and term of the guards
EdgeLoans ==
    { Loan(<<1, 10>>, Zero, One),
      Loan(<<1, 100>>, Zero, One),
      Loan(Num(30), Zero, <<5, 16>>),
      Loan(Zero, Zero, One),
      Loan(Num(1200), Zero, Zero) }

Loans == WholeYearLoans \cup InterestLoans \cup EdgeLoans

ExtraAmounts == { Num(10 * k) : k \in 0..MaxExtraTens } \cup { Num(-10) }
ExtraYearlyMonths == 1..12

ExtraPaymentConfig(t, m, ya, ym) ==
    [type |-> t, extraMonthly |-> m, extraYearlyAmount |-> ya, extraYearlyMonth |-> ym]

Policies ==
    { ExtraPaymentConfig("none", Zero, Zero, 1),
      ExtraPaymentConfig("biweekly", Zero, Zero, 1) }
    \cup { ExtraPaymentConfig("extra_monthly", e, Zero, 1) : e \in ExtraAmounts }
    \cup { ExtraPaymentConfig("extra_yearly", Zero, e, m) :
               e \in ExtraAmounts, m \in ExtraYearlyMonths }

\* the loans and grace periods the other loan products are run on: loans
\* with and without interest, and principals and terms that are not positive
MaxGraceMonths == 2
ProductLoans ==
    WholeYearLoans
    \cup { Loan(Num(4095), Num(1200), One),
           Loan(Num(38), Num(600), <<1, 4>>),
           Loan(Num(3310), Num(120), <<1, 4>>),
           Loan(Zero, Zero, One),
           Loan(Num(-100), Num(600), One),
           Loan(Num(1200), Zero, Zero),
           Loan(Num(1200), Num(600), Num(-1)) }
GracePeriodTypes == {"none", "no_payment", "interest_only"}
GracePeriodMonths == { Num(g) : g \in 0..MaxGraceMonths }
ProductPolicies ==
    { ExtraPaymentConfig("none", Zero, Zero, 1),
      ExtraPaymentConfig("extra_monthly", Num(10), Zero, 1) }

Epsilon == <<1, 100>>       \* the 0.01 of the loop conditions

(***************************************************************************)
(* State                                                                   *)
(***************************************************************************)
VARIABLES
    principal,      \* arguments of the calls
    annualRate,
    years,
    extraPayment,
    pc,             \* the call in progress and its position
    loanResult,     \* LoanResult returned by calculateLoanPayment
    sim,            \* locals of calculateLoanWithExtraPayments
    extraResult,    \* ExtraPaymentResult it returned
    ext,            \* locals of generateAmortizationScheduleWithExtra (monthly)
    extSchedule,    \* its schedule
    extY,           \* locals of generateAmortizationScheduleWithExtra (yearly)
    extScheduleY,   \* its schedule
    amort,          \* locals of generateAmortizationSchedule (monthly)
    schedule,       \* its schedule
    amortY,         \* locals of generateAmortizationSchedule (yearly)
    scheduleY,      \* its schedule
    gracePeriodMonths,  \* further arguments of calculateLoanWithGracePeriod
    gracePeriodType,
    graceResult,    \* LoanWithGraceResult returned by calculateLoanWithGracePeriod
    balloonResult,  \* BalloonLoanResult returned by calculateBalloonLoan
    bulletResult,   \* BulletLoanResult returned by calculateBulletLoan
    initial,        \* further arguments of the investment functions
    monthly,
    investmentResult,   \* InvestmentResult returned by calculateInvestment
    invest,             \* locals of generateInvestmentSchedule
    investmentSchedule, \* its schedule
    now,                \* Date.now(), in milliseconds
    exchangeRatesCache, \* the Map of cache entries by cache key
    calls,              \* the calls of the currency functions
    fromCurrency,       \* state of the CurrencyConverter component
    toCurrency,
    amount,
    result,
    timer,              \* the timer of its effect is pending
    rendered,           \* what React has rendered of it, and what it is to render
    conversions,        \* the runs of performConversion
    power,              \* the powers of an annuity computed in whole numbers
    scenarioResult      \* the payment and interest of a scenario, as fractions

\* the variables of the other loan products
productVars ==
    <<gracePeriodMonths, gracePeriodType, graceResult, balloonResult, bulletResult>>

\* the variables of the investment functions
investVars ==
    <<initial, monthly, investmentResult, invest, investmentSchedule>>

\* the variables of the currency functions and of the currency converter
currencyVars ==
    <<now, exchangeRatesCache, calls, fromCurrency, toCurrency, amount,
      result, timer, rendered, conversions>>

\* the variables of the scenarios computed in whole numbers
scenarioVars == <<power, scenarioResult>>

\* the variables the amortization engine leaves alone
otherVars == <<productVars, investVars, currencyVars, scenarioVars>>

\* the variables of the loan functions, but for the rate and the term
loanVars ==
    <<principal, extraPayment, loanResult, sim, extraResult, ext, extSchedule,
      extY, extScheduleY, amort, schedule, amortY, scheduleY>>

vars == <<principal, annualRate, years, extraPayment, pc, loanResult, sim,
          extraResult, ext, extSchedule, extY, extScheduleY, amort, schedule,
          amortY, scheduleY, otherVars>>

NotCalled == [called |-> FALSE]

(***************************************************************************)
(* Values shared by the four functions                                     *)
(***************************************************************************)
\* const monthlyRate = annualRate / 100 / 12
monthlyRate == Div(Div(annualRate, Num(100)), Num(12))

\* a payment count of one per year: not the code's, C12 fails for it
YearlyPayments == years

\* const numPayments = years * 12 (standardNumPayments)
numPayments == Mul(years, Num(12))

\* if (principal <= 0 || years <= 0)
InvalidInput == Le(principal, Zero) \/ Le(years, Zero)

\* a payment that spreads the principal over the term and ignores the
\* interest: not the code's, C5 fails for it
InterestFreePayment == Div(principal, numPayments)

\* the annuity payment of calculateLoanPayment and generateAmortizationSchedule
monthlyPayment ==
    IF monthlyRate = Zero
    THEN Div(principal, numPayments)
    ELSE Div(Mul(principal, Mul(monthlyRate, Pow(Add(One, monthlyRate), numPayments))),
             Sub(Pow(Add(One, monthlyRate), numPayments), One))

\* the same payment as computed by the two extra-payment functions
standardMonthlyPayment ==
    IF monthlyRate = Zero
    THEN Div(principal, numPayments)
    ELSE Div(Mul(principal, Mul(monthlyRate, Pow(Add(One, monthlyRate), numPayments))),
             Sub(Pow(Add(One, monthlyRate), numPayments), One))

\* const standardTotalPayment = standardMonthlyPayment * standardNumPayments
standardTotalPayment == Mul(standardMonthlyPayment, numPayments)

\* an interest total that forgets to subtract the principal: not the code's,
\* C10 fails for it
StandardTotalInterestGross == standardTotalPayment

\* const standardTotalInterest = standardTotalPayment - principal
standardTotalInterest == Sub(standardTotalPayment, principal)

(***************************************************************************)
(* calculateLoanPayment                                                    *)
(***************************************************************************)
LoanResult(mp, tp, ti) ==
    [called |-> TRUE, monthlyPayment |-> mp, totalPayment |-> tp, totalInterest |-> ti]

\* a result whose totalInterest is the whole of the payments: not the code's,
\* C11 fails for it
LoanPaymentGrossInterest ==
    IF InvalidInput THEN LoanResult(Zero, Zero, Zero)
    ELSE LoanResult(monthlyPayment, Mul(monthlyPayment, numPayments),
                    Mul(monthlyPayment, numPayments))

calculateLoanPayment ==
    IF InvalidInput THEN LoanResult(Zero, Zero, Zero)
    ELSE IF monthlyRate = Zero
         THEN LoanResult(Div(principal, numPayments), principal, Zero)
    ELSE LoanResult(monthlyPayment,
                    Mul(monthlyPayment, numPayments),
                    Sub(Mul(monthlyPayment, numPayments), principal))

CallLoanPayment ==
    /\ pc = "calculateLoanPayment"
    /\ loanResult' = calculateLoanPayment
    /\ pc' = "calculateLoanWithExtraPayments"
    /\ UNCHANGED <<principal, annualRate, years, extraPayment, sim, extraResult,
                   ext, extSchedule, extY, extScheduleY, amort, schedule, amortY,
                   scheduleY>>
    /\ UNCHANGED otherVars

(***************************************************************************)
(* calculateLoanWithExtraPayments                                          *)
(***************************************************************************)
\* const biweeklyExtra = type === "biweekly" ? standardMonthlyPayment / 12 : 0
biweeklyExtra(cfg) ==
    IF cfg.type = "biweekly" THEN Div(standardMonthlyPayment, Num(12)) ELSE Zero

\* a safety limit of the standard term itself: not the code's, C29 fails for it
MaxMonthsOfTerm == numPayments

\* const maxMonths = standardNumPayments * 2
maxMonths == Mul(numPayments, Num(2))

\* the locals of the function when the loop is entered: the constants
\* computed from the arguments, and balance, totalPaid, totalInterest, months
SimStart(cfg) ==
    [monthlyRate            |-> monthlyRate,
     standardNumPayments    |-> numPayments,
     standardMonthlyPayment |-> standardMonthlyPayment,
     standardTotalPayment   |-> standardTotalPayment,
     standardTotalInterest  |-> standardTotalInterest,
     maxMonths              |-> maxMonths,
     biweeklyExtra          |-> biweeklyExtra(cfg),
     balance                |-> principal,
     totalPaid              |-> Zero,
     totalInterest          |-> Zero,
     months                 |-> 0]

\* an extra that shrinks as extraMonthly grows: not the code's, C8 fails for it
SimExtraReversed(cfg, s, months) ==
    IF cfg.type = "extra_monthly"
    THEN Sub(Num(10 * MaxExtraTens), cfg.extraMonthly)
    ELSE Zero

\* the extra of simulated month `months`
SimExtra(cfg, s, months) ==
    IF cfg.type = "extra_monthly" THEN cfg.extraMonthly
    ELSE IF cfg.type = "biweekly" THEN s.biweeklyExtra
    ELSE IF cfg.type = "extra_yearly" /\ months % 12 = cfg.extraYearlyMonth % 12
         THEN cfg.extraYearlyAmount
    ELSE Zero

\* a loop condition without the safety cap: not the code's, C6 fails for it
SimContinuesUncapped(s) == Gt(s.balance, Epsilon)

\* while (balance > 0.01 && months < maxMonths)
SimContinues(s) == Gt(s.balance, Epsilon) /\ Lt(Num(s.months), s.maxMonths)

\* let payment = Math.min(standardMonthlyPayment, balance + interest)
SimPayment(s, interest) ==
    Min(s.standardMonthlyPayment, Add(s.balance, interest))

\* const principalPayment = Math.min(payment - interest + extra, balance)
SimPrincipalPayment(payment, interest, extra, balance) ==
    Min(Add(Sub(payment, interest), extra), balance)

\* totalPaid += payment + Math.min(extra, principalPayment + interest)
SimPaid(payment, extra, principalPayment, interest) ==
    Add(payment, Min(extra, Add(principalPayment, interest)))

\* one iteration of the simulation loop
SimIterate(cfg, s) ==
    LET months           == s.months + 1
        interest         == Mul(s.balance, s.monthlyRate)
        payment          == SimPayment(s, interest)
        extra            == SimExtra(cfg, s, months)
        principalPayment == SimPrincipalPayment(payment, interest, extra, s.balance)
    IN  [s EXCEPT
           !.months        = months,
           !.totalInterest = Add(s.totalInterest, interest),
           !.balance       = Max(Zero, Sub(s.balance, principalPayment)),
           !.totalPaid     = Add(s.totalPaid,
                                 SimPaid(payment, extra, principalPayment, interest))]

ExtraPaymentResult(smp, stp, sti, sm, am, atp, ati, ms, is, emp) ==
    [called |-> TRUE,
     standardMonthlyPayment |-> smp, standardTotalPayment |-> stp,
     standardTotalInterest |-> sti, standardMonths |-> sm,
     actualMonths |-> am, actualTotalPayment |-> atp, actualTotalInterest |-> ati,
     monthsSaved |-> ms, interestSaved |-> is, effectiveMonthlyPayment |-> emp]

\* the result for principal <= 0 or years <= 0
ZeroExtraResult ==
    ExtraPaymentResult(Zero, Zero, Zero, Zero, Zero, Zero, Zero, Zero, Zero, Zero)

\* the result for type "none"
StandardExtraResult ==
    ExtraPaymentResult(standardMonthlyPayment, standardTotalPayment,
                       standardTotalInterest, numPayments,
                       numPayments, standardTotalPayment, standardTotalInterest,
                       Zero, Zero, standardMonthlyPayment)

\* the months saved without the clamp: not the code's, C7 fails for it
MonthsSavedUnclamped(s) == Sub(s.standardNumPayments, Num(s.months))

\* monthsSaved: Math.max(0, standardNumPayments - months)
MonthsSaved(s) == Max(Zero, Sub(s.standardNumPayments, Num(s.months)))

\* interestSaved: Math.max(0, standardTotalInterest - totalInterest)
InterestSaved(s) == Max(Zero, Sub(s.standardTotalInterest, s.totalInterest))

\* const effectiveMonthlyPayment = totalPaid / months
EffectiveMonthlyPayment(s) == Div(s.totalPaid, Num(s.months))

\* the result after the simulation loop
SimResult(s) ==
    ExtraPaymentResult(s.standardMonthlyPayment, s.standardTotalPayment,
                       s.standardTotalInterest, s.standardNumPayments,
                       Num(s.months), s.totalPaid, s.totalInterest,
                       MonthsSaved(s), InterestSaved(s),
                       EffectiveMonthlyPayment(s))

\* entry: the guards and the early return for type "none"
ExtraPaymentsEnter ==
    /\ pc = "calculateLoanWithExtraPayments"
    /\ IF InvalidInput
       THEN /\ extraResult' = ZeroExtraResult
            /\ pc' = "generateAmortizationScheduleWithExtra"
            /\ sim' = sim
       ELSE IF extraPayment.type = "none"
       THEN /\ extraResult' = StandardExtraResult
            /\ pc' = "generateAmortizationScheduleWithExtra"
            /\ sim' = sim
       ELSE /\ sim' = SimStart(extraPayment)
            /\ pc' = "simulate"
            /\ extraResult' = extraResult
    /\ UNCHANGED <<principal, annualRate, years, extraPayment, loanResult,
                   ext, extSchedule, extY, extScheduleY, amort, schedule,
                   amortY, scheduleY>>
    /\ UNCHANGED otherVars

ExtraPaymentsLoop ==
    /\ pc = "simulate"
    /\ SimContinues(sim)
    /\ sim' = SimIterate(extraPayment, sim)
    /\ UNCHANGED <<principal, annualRate, years, extraPayment, pc, loanResult,
                   extraResult, ext, extSchedule, extY, extScheduleY, amort, schedule,
                   amortY, scheduleY>>
    /\ UNCHANGED otherVars

ExtraPaymentsReturn ==
    /\ pc = "simulate"
    /\ ~SimContinues(sim)
    /\ extraResult' = SimResult(sim)
    /\ pc' = "generateAmortizationScheduleWithExtra"
    /\ UNCHANGED <<principal, annualRate, years, extraPayment, loanResult, sim,
                   ext, extSchedule, extY, extScheduleY, amort, schedule,
                   amortY, scheduleY>>
    /\ UNCHANGED otherVars

\* the whole loop from locals s (the simulation as a function of the policy)
RECURSIVE SimRun(_, _)
SimRun(cfg, s) == IF SimContinues(s) THEN SimRun(cfg, SimIterate(cfg, s)) ELSE s

(***************************************************************************)
(* generateAmortizationScheduleWithExtra, periodType "monthly" and "yearly" *)
(***************************************************************************)
AmortizationRow(period, payment, princ, interest, balance, tp, ti) ==
    [period |-> period, payment |-> payment, principal |-> princ,
     interest |-> interest, balance |-> balance,
     totalPrincipal |-> tp, totalInterest |-> ti]

\* the locals of the function before either loop
ExtStart(cfg) ==
    [monthlyRate            |-> monthlyRate,
     standardNumPayments    |-> numPayments,
     standardMonthlyPayment |-> standardMonthlyPayment,
     biweeklyExtra          |-> biweeklyExtra(cfg),
     balance                |-> principal,
     totalPrincipal         |-> Zero,
     totalInterest          |-> Zero,
     month                  |-> 0]

\* the extra of month `month` in the monthly loop
ExtExtra(cfg, s, month) ==
    IF cfg.type = "extra_monthly" THEN cfg.extraMonthly
    ELSE IF cfg.type = "biweekly" THEN s.biweeklyExtra
    ELSE IF cfg.type = "extra_yearly" /\ month % 12 = cfg.extraYearlyMonth % 12
         THEN cfg.extraYearlyAmount
    ELSE Zero

\* while (balance > 0.01 && month < standardNumPayments * 2)
ExtContinues(s) ==
    Gt(s.balance, Epsilon) /\ Lt(Num(s.month), Mul(s.standardNumPayments, Num(2)))

\* a principal payment that is not capped by the balance: not the code's,
\* C27 fails for it
ExtPrincipalPaymentUncapped(s, interest, extra) ==
    Add(Sub(s.standardMonthlyPayment, interest), extra)

\* const totalPrincipalPayment = Math.min(basePrincipal + extra, balance)
ExtPrincipalPayment(s, interest, extra) ==
    Min(Add(Sub(s.standardMonthlyPayment, interest), extra), s.balance)

\* one iteration of the monthly loop: the new locals and the row pushed
ExtIterate(cfg, s) ==
    LET month                 == s.month + 1
        interest              == Mul(s.balance, s.monthlyRate)
        extra                 == ExtExtra(cfg, s, month)
        totalPrincipalPayment == ExtPrincipalPayment(s, interest, extra)
        actualPayment         == Add(interest, totalPrincipalPayment)
        balance               == Max(Zero, Sub(s.balance, totalPrincipalPayment))
        totalPrincipal        == Add(s.totalPrincipal, totalPrincipalPayment)
        totalInterest         == Add(s.totalInterest, interest)
    IN  [locals |-> [s EXCEPT !.month = month, !.balance = balance,
                              !.totalPrincipal = totalPrincipal,
                              !.totalInterest = totalInterest],
         row    |-> AmortizationRow(month, actualPayment, totalPrincipalPayment,
                                    interest, balance, totalPrincipal, totalInterest)]

ScheduleWithExtraEnter ==
    /\ pc = "generateAmortizationScheduleWithExtra"
    /\ extSchedule' = <<>>
    /\ IF InvalidInput
       THEN pc' = "generateAmortizationScheduleWithExtraYearly" /\ ext' = ext
       ELSE pc' = "extraMonthly" /\ ext' = ExtStart(extraPayment)
    /\ UNCHANGED <<principal, annualRate, years, extraPayment, loanResult, sim,
                   extraResult, extY, extScheduleY, amort, schedule, amortY,
                   scheduleY>>
    /\ UNCHANGED otherVars

ScheduleWithExtraLoop ==
    /\ pc = "extraMonthly"
    /\ ExtContinues(ext)
    /\ ext' = ExtIterate(extraPayment, ext).locals
    /\ extSchedule' = Append(extSchedule, ExtIterate(extraPayment, ext).row)
    /\ UNCHANGED <<principal, annualRate, years, extraPayment, pc, loanResult, sim,
                   extraResult, extY, extScheduleY, amort, schedule, amortY,
                   scheduleY>>
    /\ UNCHANGED otherVars

ScheduleWithExtraReturn ==
    /\ pc = "extraMonthly"
    /\ ~ExtContinues(ext)
    /\ pc' = "generateAmortizationScheduleWithExtraYearly"
    /\ UNCHANGED <<principal, annualRate, years, extraPayment, loanResult, sim,
                   extraResult, ext, extSchedule, extY, extScheduleY, amort,
                   schedule, amortY, scheduleY>>
    /\ UNCHANGED otherVars

\* the locals of the yearly summary: those of the function, and year, m and
\* the three sums of the year
ExtYearlyStart(cfg) ==
    [monthlyRate            |-> monthlyRate,
     standardMonthlyPayment |-> standardMonthlyPayment,
     biweeklyExtra          |-> biweeklyExtra(cfg),
     balance                |-> principal,
     totalPrincipal         |-> Zero,
     totalInterest          |-> Zero,
     month                  |-> 0,
     year                   |-> 0,
     m                      |-> 1,
     yearlyPrincipal        |-> Zero,
     yearlyInterest         |-> Zero,
     yearlyPayment          |-> Zero]

\* while (balance > 0.01 && year < years * 2)
ExtYearContinues(s) ==
    Gt(s.balance, Epsilon) /\ Lt(Num(s.year), Mul(years, Num(2)))

\* for (let m = 1; m <= 12 && balance > 0.01; m++)
ExtYearMonthContinues(s) == s.m <= 12 /\ Gt(s.balance, Epsilon)

\* the yearly extra matched on the month counted from the start of the loan:
\* not the code's, C22 fails for it
ExtYearExtraOfFirstYear(cfg, s) ==
    IF cfg.type = "extra_monthly" THEN cfg.extraMonthly
    ELSE IF cfg.type = "biweekly" THEN s.biweeklyExtra
    ELSE IF cfg.type = "extra_yearly" /\ s.month + 1 = cfg.extraYearlyMonth
         THEN cfg.extraYearlyAmount
    ELSE Zero

\* the extra of month m of a year in the yearly summary
ExtYearExtra(cfg, s) ==
    IF cfg.type = "extra_monthly" THEN cfg.extraMonthly
    ELSE IF cfg.type = "biweekly" THEN s.biweeklyExtra
    ELSE IF cfg.type = "extra_yearly" /\ s.m = cfg.extraYearlyMonth
         THEN cfg.extraYearlyAmount
    ELSE Zero

\* one month of the inner loop of the yearly summary
ExtYearMonthIterate(cfg, s) ==
    LET interest              == Mul(s.balance, s.monthlyRate)
        extra                 == ExtYearExtra(cfg, s)
        totalPrincipalPayment == ExtPrincipalPayment(s, interest, extra)
        actualPayment         == Add(interest, totalPrincipalPayment)
    IN  [s EXCEPT
           !.month           = s.month + 1,
           !.balance         = Max(Zero, Sub(s.balance, totalPrincipalPayment)),
           !.yearlyPrincipal = Add(s.yearlyPrincipal, totalPrincipalPayment),
           !.yearlyInterest  = Add(s.yearlyInterest, interest),
           !.yearlyPayment   = Add(s.yearlyPayment, actualPayment),
           !.totalPrincipal  = Add(s.totalPrincipal, totalPrincipalPayment),
           !.totalInterest   = Add(s.totalInterest, interest),
           !.m               = s.m + 1]

\* the row of a year
YearRow(s) ==
    AmortizationRow(s.year, s.yearlyPayment, s.yearlyPrincipal, s.yearlyInterest,
                    s.balance, s.totalPrincipal, s.totalInterest)

ScheduleWithExtraYearlyEnter ==
    /\ pc = "generateAmortizationScheduleWithExtraYearly"
    /\ extScheduleY' = <<>>
    /\ IF InvalidInput
       THEN pc' = "generateAmortizationSchedule" /\ extY' = extY
       ELSE pc' = "extraYearly" /\ extY' = ExtYearlyStart(extraPayment)
    /\ UNCHANGED <<principal, annualRate, years, extraPayment, loanResult, sim,
                   extraResult, ext, extSchedule, amort, schedule, amortY,
                   scheduleY>>
    /\ UNCHANGED otherVars

\* the outer loop enters a year: the three sums of the year are reset
ScheduleWithExtraYearlyLoop ==
    /\ pc = "extraYearly"
    /\ ExtYearContinues(extY)
    /\ extY' = [extY EXCEPT !.year = @ + 1, !.m = 1,
                            !.yearlyPrincipal = Zero, !.yearlyInterest = Zero,
                            !.yearlyPayment = Zero]
    /\ pc' = "extraYearlyMonths"
    /\ UNCHANGED <<principal, annualRate, years, extraPayment, loanResult, sim,
                   extraResult, ext, extSchedule, extScheduleY, amort, schedule,
                   amortY, scheduleY>>
    /\ UNCHANGED otherVars

ScheduleWithExtraYearlyMonth ==
    /\ pc = "extraYearlyMonths"
    /\ ExtYearMonthContinues(extY)
    /\ extY' = ExtYearMonthIterate(extraPayment, extY)
    /\ UNCHANGED <<principal, annualRate, years, extraPayment, pc, loanResult, sim,
                   extraResult, ext, extSchedule, extScheduleY, amort, schedule,
                   amortY, scheduleY>>
    /\ UNCHANGED otherVars

\* the inner loop is over: if (yearlyPayment > 0) the row of the year is pushed
ScheduleWithExtraYearlyPush ==
    /\ pc = "extraYearlyMonths"
    /\ ~ExtYearMonthContinues(extY)
    /\ extScheduleY' = IF Gt(extY.yearlyPayment, Zero)
                       THEN Append(extScheduleY, YearRow(extY))
                       ELSE extScheduleY
    /\ pc' = "extraYearly"
    /\ UNCHANGED <<principal, annualRate, years, extraPayment, loanResult, sim,
                   extraResult, ext, extSchedule, extY, amort, schedule, amortY,
                   scheduleY>>
    /\ UNCHANGED otherVars

ScheduleWithExtraYearlyReturn ==
    /\ pc = "extraYearly"
    /\ ~ExtYearContinues(extY)
    /\ pc' = "generateAmortizationSchedule"
    /\ UNCHANGED <<principal, annualRate, years, extraPayment, loanResult, sim,
                   extraResult, ext, extSchedule, extY, extScheduleY, amort,
                   schedule, amortY, scheduleY>>
    /\ UNCHANGED otherVars

(***************************************************************************)
(* generateAmortizationSchedule, periodType "monthly" and "yearly"         *)
(***************************************************************************)
\* the locals of the function before the monthly loop
AmortStart ==
    [monthlyRate    |-> monthlyRate,
     numPayments    |-> numPayments,
     monthlyPayment |-> monthlyPayment,
     balance        |-> principal,
     totalPrincipal |-> Zero,
     totalInterest  |-> Zero,
     month          |-> 0]

\* for (let month = 1; month <= numPayments; month++)
AmortContinues(s) == Le(Num(s.month + 1), s.numPayments)

\* the operands of principalPaid exchanged: not the code's, C4 fails for it
AmortPrincipalPaidReversed(s, interest) == Sub(interest, s.monthlyPayment)

\* const principalPaid = monthlyPayment - interest
AmortPrincipalPaid(s, interest) == Sub(s.monthlyPayment, interest)

\* one month of the monthly loop: the new locals and the row pushed
AmortIterate(s) ==
    LET month          == s.month + 1
        interest       == Mul(s.balance, s.monthlyRate)
        principalPaid  == AmortPrincipalPaid(s, interest)
        balance        == Max(Zero, Sub(s.balance, principalPaid))
        totalPrincipal == Add(s.totalPrincipal, principalPaid)
        totalInterest  == Add(s.totalInterest, interest)
    IN  [locals |-> [s EXCEPT !.month = month, !.balance = balance,
                              !.totalPrincipal = totalPrincipal,
                              !.totalInterest = totalInterest],
         row    |-> AmortizationRow(month, s.monthlyPayment, principalPaid, interest,
                                    balance, totalPrincipal, totalInterest)]

ScheduleEnter ==
    /\ pc = "generateAmortizationSchedule"
    /\ schedule' = <<>>
    /\ IF InvalidInput
       THEN pc' = "generateAmortizationScheduleYearly" /\ amort' = amort
       ELSE pc' = "monthly" /\ amort' = AmortStart
    /\ UNCHANGED <<principal, annualRate, years, extraPayment, loanResult, sim,
                   extraResult, ext, extSchedule, extY, extScheduleY, amortY,
                   scheduleY>>
    /\ UNCHANGED otherVars

ScheduleLoop ==
    /\ pc = "monthly"
    /\ AmortContinues(amort)
    /\ amort' = AmortIterate(amort).locals
    /\ schedule' = Append(schedule, AmortIterate(amort).row)
    /\ UNCHANGED <<principal, annualRate, years, extraPayment, pc, loanResult, sim,
                   extraResult, ext, extSchedule, extY, extScheduleY, amortY,
                   scheduleY>>
    /\ UNCHANGED otherVars

ScheduleReturn ==
    /\ pc = "monthly"
    /\ ~AmortContinues(amort)
    /\ pc' = "generateAmortizationScheduleYearly"
    /\ UNCHANGED <<principal, annualRate, years, extraPayment, loanResult, sim,
                   extraResult, ext, extSchedule, extY, extScheduleY, amort,
                   schedule, amortY, scheduleY>>
    /\ UNCHANGED otherVars

\* the locals of the yearly summary: those of the function, and year, the
\* month of the inner loop and the three sums of the year
YearlyStart ==
    [monthlyRate     |-> monthlyRate,
     monthlyPayment  |-> monthlyPayment,
     balance         |-> principal,
     totalPrincipal  |-> Zero,
     totalInterest   |-> Zero,
     year            |-> 0,
     month           |-> 1,
     yearlyPrincipal |-> Zero,
     yearlyInterest  |-> Zero,
     yearlyPayment   |-> Zero]

\* for (let year = 1; year <= years; year++)
YearContinues(s) == Le(Num(s.year + 1), years)

\* for (let month = 1; month <= 12; month++)
YearMonthContinues(s) == s.month <= 12

\* one month of the inner loop of the yearly summary
YearMonthIterate(s) ==
    LET interest      == Mul(s.balance, s.monthlyRate)
        principalPaid == AmortPrincipalPaid(s, interest)
    IN  [s EXCEPT
           !.balance         = Max(Zero, Sub(s.balance, principalPaid)),
           !.yearlyPrincipal = Add(s.yearlyPrincipal, principalPaid),
           !.yearlyInterest  = Add(s.yearlyInterest, interest),
           !.yearlyPayment   = Add(s.yearlyPayment, s.monthlyPayment),
           !.totalPrincipal  = Add(s.totalPrincipal, principalPaid),
           !.totalInterest   = Add(s.totalInterest, interest),
           !.month           = s.month + 1]

ScheduleYearlyEnter ==
    /\ pc = "generateAmortizationScheduleYearly"
    /\ scheduleY' = <<>>
    /\ IF InvalidInput
       THEN pc' = "calculateLoanWithGracePeriod" /\ amortY' = amortY
       ELSE pc' = "yearly" /\ amortY' = YearlyStart
    /\ UNCHANGED <<principal, annualRate, years, extraPayment, loanResult, sim,
                   extraResult, ext, extSchedule, extY, extScheduleY, amort,
                   schedule>>
    /\ UNCHANGED otherVars

\* the outer loop enters a year: the three sums of the year are reset
ScheduleYearlyLoop ==
    /\ pc = "yearly"
    /\ YearContinues(amortY)
    /\ amortY' = [amortY EXCEPT !.year = @ + 1, !.month = 1,
                                !.yearlyPrincipal = Zero, !.yearlyInterest = Zero,
                                !.yearlyPayment = Zero]
    /\ pc' = "yearlyMonths"
    /\ UNCHANGED <<principal, annualRate, years, extraPayment, loanResult, sim,
                   extraResult, ext, extSchedule, extY, extScheduleY, amort,
                   schedule, scheduleY>>
    /\ UNCHANGED otherVars

ScheduleYearlyMonth ==
    /\ pc = "yearlyMonths"
    /\ YearMonthContinues(amortY)
    /\ amortY' = YearMonthIterate(amortY)
    /\ UNCHANGED <<principal, annualRate, years, extraPayment, pc, loanResult, sim,
                   extraResult, ext, extSchedule, extY, extScheduleY, amort,
                   schedule, scheduleY>>
    /\ UNCHANGED otherVars

\* the inner loop is over: the row of the year is pushed
ScheduleYearlyPush ==
    /\ pc = "yearlyMonths"
    /\ ~YearMonthContinues(amortY)
    /\ scheduleY' = Append(scheduleY, YearRow(amortY))
    /\ pc' = "yearly"
    /\ UNCHANGED <<principal, annualRate, years, extraPayment, loanResult, sim,
                   extraResult, ext, extSchedule, extY, extScheduleY, amort,
                   schedule, amortY>>
    /\ UNCHANGED otherVars

ScheduleYearlyReturn ==
    /\ pc = "yearly"
    /\ ~YearContinues(amortY)
    /\ pc' = "calculateLoanWithGracePeriod"
    /\ UNCHANGED <<principal, annualRate, years, extraPayment, loanResult, sim,
                   extraResult, ext, extSchedule, extY, extScheduleY, amort,
                   schedule, amortY, scheduleY>>
    /\ UNCHANGED otherVars

(***************************************************************************)
(* calculateLoanPayment as a function of its arguments                     *)
(***************************************************************************)
\* the annuity payment for principal p, monthly rate r and n payments
AnnuityPayment(p, r, n) ==
    Div(Mul(p, Mul(r, Pow(Add(One, r), n))), Sub(Pow(Add(One, r), n), One))

\* calculateLoanPayment(p, rate, y)
LoanPaymentOf(p, rate, y) ==
    LET r == Div(Div(rate, Num(100)), Num(12))
        n == Mul(y, Num(12))
    IN  IF Le(p, Zero) \/ Le(y, Zero) THEN LoanResult(Zero, Zero, Zero)
        ELSE IF r = Zero THEN LoanResult(Div(p, n), p, Zero)
        ELSE LoanResult(AnnuityPayment(p, r, n),
                        Mul(AnnuityPayment(p, r, n), n),
                        Sub(Mul(AnnuityPayment(p, r, n), n), p))

(***************************************************************************)
(* calculateLoanWithGracePeriod                                            *)
(***************************************************************************)
LoanWithGraceResult(mp, gp, tp, ti, pag, gi) ==
    [called |-> TRUE, monthlyPayment |-> mp, gracePayment |-> gp,
     totalPayment |-> tp, totalInterest |-> ti,
     principalAfterGrace |-> pag, graceInterest |-> gi]

\* const monthlyInterest = principal * monthlyRate
monthlyInterest == Mul(principal, monthlyRate)

\* grace phase without capitalization of the interest: not the code's, C14
\* fails for it
GraceNoPaymentSimple ==
    LET after == Mul(principal, Add(One, Mul(monthlyRate, gracePeriodMonths)))
    IN  [principalAfterGrace |-> after,
         gracePayment        |-> Zero,
         totalGracePayments  |-> Zero,
         graceInterest       |-> Sub(after, principal)]

\* the grace phase of type "no_payment": the interest is capitalized
GraceNoPayment ==
    LET after == Mul(principal, Pow(Add(One, monthlyRate), gracePeriodMonths))
    IN  [principalAfterGrace |-> after,
         gracePayment        |-> Zero,
         totalGracePayments  |-> Zero,
         graceInterest       |-> Sub(after, principal)]

\* grace phase that counts one month of interest only: not the code's, C15
\* fails for it
GraceInterestOnlyOnce ==
    [principalAfterGrace |-> principal,
     gracePayment        |-> monthlyInterest,
     totalGracePayments  |-> monthlyInterest,
     graceInterest       |-> monthlyInterest]

\* the grace phase of type "interest_only": the interest is paid every month
GraceInterestOnly ==
    [principalAfterGrace |-> principal,
     gracePayment        |-> monthlyInterest,
     totalGracePayments  |-> Mul(monthlyInterest, gracePeriodMonths),
     graceInterest       |-> Mul(monthlyInterest, gracePeriodMonths)]

\* the grace phase: principalAfterGrace, gracePayment, totalGracePayments and
\* graceInterest
GracePhase ==
    IF gracePeriodType = "no_payment" THEN GraceNoPayment
    ELSE IF gracePeriodType = "interest_only" THEN GraceInterestOnly
    ELSE [principalAfterGrace |-> principal,
          gracePayment        |-> Zero,
          totalGracePayments  |-> Zero,
          graceInterest       |-> Zero]

\* amortization over the term shortened by the grace period: not the code's,
\* C16 fails for it
GraceAmortizationShortened(principalAfterGrace) ==
    LET n == Sub(numPayments, gracePeriodMonths)
    IN  IF monthlyRate = Zero
        THEN [monthlyPayment       |-> Div(principalAfterGrace, n),
              totalRegularPayments |-> principalAfterGrace]
        ELSE LET mp == AnnuityPayment(principalAfterGrace, monthlyRate, n)
             IN  [monthlyPayment       |-> mp,
                  totalRegularPayments |-> Mul(mp, n)]

\* the amortization phase: monthlyPayment and totalRegularPayments
GraceAmortization(principalAfterGrace) ==
    IF monthlyRate = Zero
    THEN [monthlyPayment       |-> Div(principalAfterGrace, numPayments),
          totalRegularPayments |-> principalAfterGrace]
    ELSE LET mp == AnnuityPayment(principalAfterGrace, monthlyRate, numPayments)
         IN  [monthlyPayment       |-> mp,
              totalRegularPayments |-> Mul(mp, numPayments)]

\* const totalPayment = totalGracePayments + totalRegularPayments
GraceTotalPayment(totalGracePayments, totalRegularPayments) ==
    Add(totalGracePayments, totalRegularPayments)

calculateLoanWithGracePeriod ==
    IF InvalidInput
    THEN LoanWithGraceResult(Zero, Zero, Zero, Zero, Zero, Zero)
    ELSE IF gracePeriodType = "none" \/ gracePeriodMonths = Zero
    THEN LoanWithGraceResult(calculateLoanPayment.monthlyPayment, Zero,
                             calculateLoanPayment.totalPayment,
                             calculateLoanPayment.totalInterest,
                             principal, Zero)
    ELSE LET g  == GracePhase
             a  == GraceAmortization(g.principalAfterGrace)
             tp == GraceTotalPayment(g.totalGracePayments, a.totalRegularPayments)
         IN  LoanWithGraceResult(a.monthlyPayment, g.gracePayment, tp,
                                 Sub(tp, principal),
                                 g.principalAfterGrace, g.graceInterest)

CallLoanWithGracePeriod ==
    /\ pc = "calculateLoanWithGracePeriod"
    /\ graceResult' = calculateLoanWithGracePeriod
    /\ pc' = "calculateBalloonLoan"
    /\ UNCHANGED <<principal, annualRate, years, extraPayment, loanResult, sim,
                   extraResult, ext, extSchedule, extY, extScheduleY, amort,
                   schedule, amortY, scheduleY>>
    /\ UNCHANGED <<gracePeriodMonths, gracePeriodType, balloonResult, bulletResult>>
    /\ UNCHANGED <<investVars, currencyVars, scenarioVars>>

(***************************************************************************)
(* calculateBalloonLoan                                                    *)
(***************************************************************************)
BalloonLoanResult(mp, bp, tp, ti) ==
    [called |-> TRUE, monthlyPayment |-> mp, balloonPayment |-> bp,
     totalPayment |-> tp, totalInterest |-> ti]

\* the interest of one month only: not the code's, C17 fails for it
BalloonInterestOfOneMonth(mp) == mp

\* const totalInterestPayments = monthlyPayment * numMonths
BalloonInterestPayments(mp) == Mul(mp, numPayments)

\* the result computed without the guard: not the code's, C13 fails for it
BalloonLoanUnguarded ==
    BalloonLoanResult(Mul(principal, monthlyRate), principal,
                      Add(Mul(Mul(principal, monthlyRate), numPayments), principal),
                      Mul(Mul(principal, monthlyRate), numPayments))

calculateBalloonLoan ==
    IF InvalidInput THEN BalloonLoanResult(Zero, Zero, Zero, Zero)
    ELSE LET mp  == Mul(principal, monthlyRate)
             tip == BalloonInterestPayments(mp)
         IN  BalloonLoanResult(mp, principal, Add(tip, principal), tip)

CallBalloonLoan ==
    /\ pc = "calculateBalloonLoan"
    /\ balloonResult' = calculateBalloonLoan
    /\ pc' = "calculateBulletLoan"
    /\ UNCHANGED <<principal, annualRate, years, extraPayment, loanResult, sim,
                   extraResult, ext, extSchedule, extY, extScheduleY, amort,
                   schedule, amortY, scheduleY>>
    /\ UNCHANGED <<gracePeriodMonths, gracePeriodType, graceResult, bulletResult>>
    /\ UNCHANGED <<investVars, currencyVars, scenarioVars>>

(***************************************************************************)
(* calculateBulletLoan                                                     *)
(***************************************************************************)
BulletLoanResult(mp, fp, tp, ti) ==
    [called |-> TRUE, monthlyPayment |-> mp, finalPayment |-> fp,
     totalPayment |-> tp, totalInterest |-> ti]

\* a final payment with simple interest: not the code's, C18 fails for it
BulletFinalPaymentSimple == Mul(principal, Add(One, Mul(monthlyRate, numPayments)))

\* const finalPayment = principal * Math.pow(1 + monthlyRate, numMonths)
BulletFinalPayment == Mul(principal, Pow(Add(One, monthlyRate), numPayments))

calculateBulletLoan ==
    IF InvalidInput THEN BulletLoanResult(Zero, Zero, Zero, Zero)
    ELSE BulletLoanResult(Zero, BulletFinalPayment, BulletFinalPayment,
                          Sub(BulletFinalPayment, principal))

CallBulletLoan ==
    /\ pc = "calculateBulletLoan"
    /\ bulletResult' = calculateBulletLoan
    /\ pc' = "done"
    /\ UNCHANGED <<principal, annualRate, years, extraPayment, loanResult, sim,
                   extraResult, ext, extSchedule, extY, extScheduleY, amort,
                   schedule, amortY, scheduleY>>
    /\ UNCHANGED <<gracePeriodMonths, gracePeriodType, graceResult, balloonResult>>
    /\ UNCHANGED <<investVars, currencyVars, scenarioVars>>

(***************************************************************************)
(* Currency: getExchangeRate, convertAmount, convertCurrencyAmounts        *)
(***************************************************************************)
\* bounds of the calls and of the clock
MaxCalls   == 4     \* calls of the currency functions in a run
MaxLookups == 3     \* of which made directly, not by the converter
MaxTicks   == 2     \* the clock advances by half hours, MaxTicks times

\* the currencies, the rates the service answers with and the amounts of the
\* calls
Currencies == {"USD", "EUR"}
Rates      == {Num(2), Num(3)}
Amounts    == {Num(100), Num(200)}
AmountsRecord == [principal |-> Num(100), payment |-> Num(10)]

\* the calls made directly: each function on two different currencies, and
\* the rate of the reverse pair (the converter also calls with from = to)
Lookups ==
    { [fn |-> f, from |-> "USD", to |-> "EUR"] :
          f \in {"getExchangeRate", "convertAmount", "convertCurrencyAmounts"} }
    \cup { [fn |-> "getExchangeRate", from |-> "EUR", to |-> "USD"] }

\* const CACHE_DURATION_MS = 1000 * 60 * 60
CACHE_DURATION_MS == 1000 * 60 * 60

\* the step of the clock: half an hour
HalfHour == 1000 * 60 * 30

\* the variables the currency functions leave alone
engineVars ==
    <<principal, annualRate, years, extraPayment, pc, loanResult, sim,
      extraResult, ext, extSchedule, extY, extScheduleY, amort, schedule,
      amortY, scheduleY, productVars, investVars, scenarioVars>>

\* const cacheKey = `${from}-${to}`
cacheKey(from, to) == from \o "-" \o to

\* an entry that still counts as fresh when exactly one hour old: not the
\* code's, C24 fails for it
IsFreshInclusive(key) ==
    /\ key \in DOMAIN exchangeRatesCache
    /\ now - exchangeRatesCache[key].fetchedAt <= CACHE_DURATION_MS

\* cached && Date.now() - cached.fetchedAt < CACHE_DURATION_MS
IsFresh(key) ==
    /\ key \in DOMAIN exchangeRatesCache
    /\ now - exchangeRatesCache[key].fetchedAt < CACHE_DURATION_MS

\* the data of a response of the rate service (its date is left out)
ExchangeRate(from, to, rate) ==
    [amount |-> One, base |-> from, rates |-> [c \in {to} |-> rate]]

\* the bodies of an ok response, which the code does not validate: the rates
\* of the pair, rates without the currency asked for, and no rates at all
Bodies(from, to) ==
    { ExchangeRate(from, to, rate) : rate \in Rates }
        \cup { [amount |-> One, base |-> from, rates |-> [c \in {} |-> Zero]],
               [amount |-> One, base |-> from] }

\* the value of a property an object does not have
Undefined == <<"undefined">>

\* data.rates[to] throws a TypeError when data has no rates ...
RatesMissing(data) == "rates" \notin DOMAIN data

\* ... and is undefined when the rates lack the currency
CachedRate(data, to) ==
    IF to \in DOMAIN data.rates THEN data.rates[to] ELSE Undefined

\* { ...data, fetchedAt: Date.now() }
CacheEntry(data, fetchedAt) ==
    [f \in DOMAIN data \cup {"fetchedAt"} |->
        IF f = "fetchedAt" THEN fetchedAt ELSE data[f]]

\* exchangeRatesCache.set(cacheKey, entry)
CacheSet(key, entry) ==
    [k \in DOMAIN exchangeRatesCache \cup {key} |->
        IF k = key THEN entry ELSE exchangeRatesCache[k]]

\* a call that has not been made
IdleCall == [status |-> "idle"]

\* a call: its function and arguments, who made it (0: directly), how far
\* it is, the requests it sent and the value returned or thrown
Call(fn, from, to, amounts, by, status, requests, value) ==
    [fn |-> fn, from |-> from, to |-> to, amounts |-> amounts, by |-> by,
     status |-> status, requests |-> requests,
     value |-> value]

\* what each function returns when from === to
ReturnedForSameCurrency(fn, amounts) ==
    IF fn = "getExchangeRate" THEN One ELSE amounts

\* amount * rate; a number times undefined is NaN
Times(x, rate) == IF Len(rate) = 1 THEN NaN ELSE Mul(x, rate)

\* what each function returns once getExchangeRate has returned rate
ReturnedForRate(fn, amounts, rate) ==
    IF fn = "getExchangeRate" THEN rate
    ELSE IF fn = "convertAmount" THEN Times(amounts, rate)
    ELSE [k \in DOMAIN amounts |-> Times(amounts[k], rate)]

\* the TypeError of cached.rates[to] for an entry without rates: it is
\* raised before the try block and reaches the caller as it is
ThrownTypeError(c) ==
    [c EXCEPT !.status = "thrown",
              !.value = "Cannot read properties of undefined"]

\* a call up to its first await: it returns for from === to and for a fresh
\* cache entry, and sends a request otherwise
BeginCall(fn, from, to, amounts, by) ==
    IF from = to
    THEN Call(fn, from, to, amounts, by, "returned", 0,
              ReturnedForSameCurrency(fn, amounts))
    ELSE IF IsFresh(cacheKey(from, to))
    THEN LET cached == exchangeRatesCache[cacheKey(from, to)]
         IN  IF RatesMissing(cached)
             THEN ThrownTypeError(Call(fn, from, to, amounts, by, "fetching",
                                       0, "pending"))
             ELSE Call(fn, from, to, amounts, by, "returned", 0,
                       ReturnedForRate(fn, amounts, CachedRate(cached, to)))
    ELSE Call(fn, from, to, amounts, by, "fetching", 1, "pending")

\* a failed request answered with a rate of 1: not the code's, C23 fails for
\* it
ReturnedWithDefaultRate(c) ==
    [c EXCEPT !.status = "returned",
              !.value = ReturnedForRate(c.fn, c.amounts, One)]

\* throw new Error(`Failed to get exchange rate from ${from} to ${to}: ...`)
Thrown(c) ==
    [c EXCEPT !.status = "thrown", !.value = "Failed to get exchange rate"]

\* the arguments besides the currencies of a direct call
AmountsOf(fn) ==
    IF fn = "getExchangeRate" THEN "none"
    ELSE IF fn = "convertAmount" THEN Num(100)
    ELSE AmountsRecord

\* the calls are made in the order of their numbers
NextCall(k) == calls[k].status = "idle" /\ \A j \in 1..(k - 1) : calls[j].status # "idle"

\* a function is called directly
LookupCall ==
    /\ \E k \in 1..MaxLookups, l \in Lookups :
          /\ NextCall(k)
          /\ calls' = [calls EXCEPT
                         ![k] = BeginCall(l.fn, l.from, l.to, AmountsOf(l.fn), 0)]
    /\ UNCHANGED <<now, exchangeRatesCache, fromCurrency, toCurrency,
                   amount, result, timer, rendered, conversions>>
    /\ UNCHANGED engineVars

\* each run of performConversion makes two calls
MaxConversions == MaxCalls \div 2

\* the calls of run c of performConversion: getExchangeRate and convertAmount
RateCall(c)    == 2 * c - 1
ConvertCall(c) == 2 * c

\* the call a run of performConversion awaits has settled and the run has
\* not resumed yet: it resumes before any timer, event or response is handled
MicrotaskPending ==
    \E c \in DOMAIN conversions :
        \/ /\ conversions[c].stage = "getExchangeRate"
           /\ calls[RateCall(c)].status \in {"returned", "thrown"}
        \/ /\ conversions[c].stage = "convertAmount"
           /\ calls[ConvertCall(c)].status \in {"returned", "thrown"}

\* await fetch(...) resumes with a response that is ok: the call waits for
\* the body, await response.json()
FetchResponds ==
    /\ ~MicrotaskPending
    /\ \E k \in 1..MaxCalls :
          /\ calls[k].status = "fetching"
          /\ calls' = [calls EXCEPT ![k].status = "parsing"]
    /\ UNCHANGED <<now, exchangeRatesCache, fromCurrency, toCurrency,
                   amount, result, timer, rendered, conversions>>
    /\ UNCHANGED engineVars

\* await response.json() resumes with the body: the entry is set with the
\* time of this moment, and data.rates[to] is returned, or its TypeError is
\* caught and thrown again
FetchSucceeds ==
    /\ ~MicrotaskPending
    /\ \E k \in 1..MaxCalls :
          /\ calls[k].status = "parsing"
          /\ \E data \in Bodies(calls[k].from, calls[k].to) :
                LET c     == calls[k]
                    key   == cacheKey(c.from, c.to)
                    entry == CacheEntry(data, now)
                IN  /\ exchangeRatesCache' = CacheSet(key, entry)
                    /\ calls' = [calls EXCEPT
                                   ![k] = IF RatesMissing(data) THEN Thrown(c)
                                          ELSE [c EXCEPT
                                                  !.status = "returned",
                                                  !.value = ReturnedForRate(
                                                      c.fn, c.amounts,
                                                      CachedRate(data, c.to))]]
    /\ UNCHANGED <<now, fromCurrency, toCurrency, amount, result, timer,
                   rendered, conversions>>
    /\ UNCHANGED engineVars

\* the request fails, the response is not ok or its body cannot be read: the
\* call throws
FetchFails ==
    /\ ~MicrotaskPending
    /\ \E k \in 1..MaxCalls :
          /\ calls[k].status \in {"fetching", "parsing"}
          /\ calls' = [calls EXCEPT ![k] = Thrown(calls[k])]
    /\ UNCHANGED <<now, exchangeRatesCache, fromCurrency, toCurrency,
                   amount, result, timer, rendered, conversions>>
    /\ UNCHANGED engineVars

\* half an hour passes
Tick ==
    /\ now < MaxTicks * HalfHour
    /\ now' = now + HalfHour
    /\ UNCHANGED <<exchangeRatesCache, calls, fromCurrency,
                   toCurrency, amount, result, timer, rendered, conversions>>
    /\ UNCHANGED engineVars

(***************************************************************************)
(* Currency: the CurrencyConverter component                               *)
(***************************************************************************)
ConversionResult(convertedAmount, rate, isLoading, error) ==
    [convertedAmount |-> convertedAmount, rate |-> rate,
     isLoading |-> isLoading, error |-> error]

\* a run of performConversion that has not started
IdleConversion == [stage |-> "idle"]

\* what React has rendered: the component is mounted, a render of its state
\* is scheduled, the cleanup of its effect is still to run after an unmount,
\* and the result on the screen
Rendered(mounted, scheduled, cleanup, shown) ==
    [mounted |-> mounted, scheduled |-> scheduled, cleanup |-> cleanup,
     result |-> shown]

\* the render of a result: result.rate.toFixed(6) throws a TypeError for a
\* rate that is undefined
RenderThrows(r) == Len(r.rate) = 1

\* setResult(r) outside an event handler: the state is set and a render is
\* scheduled for a later task; nothing happens once the component is
\* unmounted
SetResult(r) ==
    /\ result' = IF rendered.mounted THEN r ELSE result
    /\ rendered' = IF rendered.mounted
                   THEN [rendered EXCEPT !.scheduled = TRUE]
                   ELSE rendered

\* the scheduled render: the result is shown, or the render throws, no error
\* boundary catches the error and the component is unmounted; the cleanup of
\* its effect runs in a later task
Render ==
    /\ rendered.mounted
    /\ rendered.scheduled
    /\ ~MicrotaskPending
    /\ rendered' = IF RenderThrows(result)
                   THEN [rendered EXCEPT !.mounted = FALSE,
                                         !.scheduled = FALSE,
                                         !.cleanup = TRUE]
                   ELSE [rendered EXCEPT !.scheduled = FALSE,
                                         !.result = result]
    /\ UNCHANGED <<now, exchangeRatesCache, calls, fromCurrency, toCurrency,
                   amount, result, timer, conversions>>
    /\ UNCHANGED engineVars

\* the cleanup of the effect after the unmount: clearTimeout(timer)
Cleanup ==
    /\ rendered.cleanup
    /\ ~MicrotaskPending
    /\ rendered' = [rendered EXCEPT !.cleanup = FALSE]
    /\ timer' = FALSE
    /\ UNCHANGED <<now, exchangeRatesCache, calls, fromCurrency, toCurrency,
                   amount, result, conversions>>
    /\ UNCHANGED engineVars

\* the user selects another amount or currency: the render of the event, which
\* takes a scheduled render of the result with it, and its effects are done
\* at once. The effect sets its timer again; when the render throws the
\* component is unmounted and the cleanup leaves no timer.
Select ==
    /\ rendered.mounted
    /\ ~MicrotaskPending
    /\ \E c \in 1..MaxConversions : conversions[c].stage = "idle"
    /\ \E f \in Currencies, t \in Currencies, a \in Amounts :
          /\ <<f, t, a>> # <<fromCurrency, toCurrency, amount>>
          /\ fromCurrency' = f
          /\ toCurrency' = t
          /\ amount' = a
    /\ IF rendered.scheduled /\ RenderThrows(result)
       THEN /\ rendered' = [rendered EXCEPT !.mounted = FALSE,
                                            !.scheduled = FALSE]
            /\ timer' = FALSE
       ELSE /\ rendered' = [rendered EXCEPT !.scheduled = FALSE,
                                            !.result = result]
            /\ timer' = TRUE
    /\ UNCHANGED <<now, exchangeRatesCache, calls, result, conversions>>
    /\ UNCHANGED engineVars

\* the timer fires: performConversion runs up to its first await (also in a
\* component unmounted since, whose cleanup has not run)
PerformConversion ==
    /\ timer
    /\ ~MicrotaskPending
    /\ \E c \in 1..MaxConversions :
          /\ conversions[c].stage = "idle"
          /\ \A j \in 1..(c - 1) : conversions[j].stage # "idle"
          /\ SetResult([result EXCEPT !.isLoading = TRUE, !.error = "null"])
          /\ calls' = [calls EXCEPT
                         ![RateCall(c)] =
                             BeginCall("getExchangeRate", fromCurrency,
                                       toCurrency, "none", c)]
          /\ conversions' = [conversions EXCEPT
                               ![c] = [stage |-> "getExchangeRate",
                                       amount |-> amount,
                                       fromCurrency |-> fromCurrency,
                                       toCurrency |-> toCurrency,
                                       rate |-> "pending",
                                       outcome |-> "pending"]]
    /\ timer' = FALSE
    /\ UNCHANGED <<now, exchangeRatesCache, fromCurrency, toCurrency,
                   amount>>
    /\ UNCHANGED engineVars

\* const rate = await getExchangeRate(...) resumes: convertAmount is called
RateReturned ==
    /\ \E c \in 1..MaxConversions :
          /\ conversions[c].stage = "getExchangeRate"
          /\ calls[RateCall(c)].status = "returned"
          /\ conversions' = [conversions EXCEPT
                               ![c].stage = "convertAmount",
                               ![c].rate = calls[RateCall(c)].value]
          /\ calls' = [calls EXCEPT
                         ![ConvertCall(c)] =
                             BeginCall("convertAmount",
                                       conversions[c].fromCurrency,
                                       conversions[c].toCurrency,
                                       conversions[c].amount, c)]
    /\ UNCHANGED <<now, exchangeRatesCache, fromCurrency, toCurrency,
                   amount, result, timer, rendered>>
    /\ UNCHANGED engineVars

\* const convertedAmount = await convertAmount(...) resumes: setResult
ConversionReturned ==
    /\ \E c \in 1..MaxConversions :
          /\ conversions[c].stage = "convertAmount"
          /\ calls[ConvertCall(c)].status = "returned"
          /\ LET r == ConversionResult(calls[ConvertCall(c)].value,
                                       conversions[c].rate, FALSE, "null")
             IN  /\ SetResult(r)
                 /\ conversions' = [conversions EXCEPT ![c].stage = "settled",
                                                       ![c].outcome = r]
    /\ UNCHANGED <<now, exchangeRatesCache, calls, fromCurrency,
                   toCurrency, amount, timer>>
    /\ UNCHANGED engineVars

\* one of the two calls has thrown: the catch block sets the error
ConversionThrown ==
    /\ \E c \in 1..MaxConversions :
          /\ \/ /\ conversions[c].stage = "getExchangeRate"
                /\ calls[RateCall(c)].status = "thrown"
             \/ /\ conversions[c].stage = "convertAmount"
                /\ calls[ConvertCall(c)].status = "thrown"
          /\ LET r == ConversionResult(Zero, One, FALSE,
                                       "Failed to get exchange rate")
             IN  /\ SetResult(r)
                 /\ conversions' = [conversions EXCEPT ![c].stage = "settled",
                                                       ![c].outcome = r]
    /\ UNCHANGED <<now, exchangeRatesCache, calls, fromCurrency,
                   toCurrency, amount, timer>>
    /\ UNCHANGED engineVars

\* the powers and the result of a scenario before its computation
ScenarioIdle ==
    /\ power = NotCalled
    /\ scenarioResult = NotCalled

\* the module's cache is empty, no call was made, and the converter shows
\* its initial state
CurrencyStart ==
    /\ now = 0
    /\ exchangeRatesCache = [k \in {} |-> IdleCall]
    /\ calls = [k \in 1..MaxCalls |-> IdleCall]
    /\ fromCurrency = "USD"
    /\ toCurrency = "EUR"
    /\ amount = Num(100)
    /\ result = ConversionResult(Zero, One, FALSE, "null")
    /\ conversions = [c \in 1..MaxConversions |-> IdleConversion]

\* ... and the converter is not mounted
CurrencyInit ==
    /\ CurrencyStart
    /\ timer = FALSE
    /\ rendered = Rendered(FALSE, FALSE, FALSE, result)

\* no loan or investment function has been called
ResultsIdle ==
    /\ extraPayment = ExtraPaymentConfig("none", Zero, Zero, 1)
    /\ loanResult = NotCalled
    /\ sim = NotCalled
    /\ extraResult = NotCalled
    /\ ext = NotCalled
    /\ extSchedule = <<>>
    /\ extY = NotCalled
    /\ extScheduleY = <<>>
    /\ amort = NotCalled
    /\ schedule = <<>>
    /\ amortY = NotCalled
    /\ scheduleY = <<>>
    /\ gracePeriodMonths = Zero
    /\ gracePeriodType = "none"
    /\ graceResult = NotCalled
    /\ balloonResult = NotCalled
    /\ bulletResult = NotCalled
    /\ initial = Zero
    /\ monthly = Zero
    /\ investmentResult = NotCalled
    /\ invest = NotCalled
    /\ investmentSchedule = <<>>

\* ... and none is going to be
EngineIdle ==
    /\ principal = Zero
    /\ annualRate = Zero
    /\ years = Zero
    /\ pc = "done"
    /\ ResultsIdle

\* the currency functions are called directly, one call after the other or
\* several at a time
LibraryInit == EngineIdle /\ ScenarioIdle /\ CurrencyInit

LibraryNext ==
    \/ LookupCall
    \/ FetchResponds
    \/ FetchSucceeds
    \/ FetchFails
    \/ Tick

CurrencySpec == LibraryInit /\ [][LibraryNext]_vars

\* the converter is mounted and used: its first render shows the initial
\* result and its effect has set the timer
ConverterInit ==
    /\ EngineIdle
    /\ ScenarioIdle
    /\ CurrencyStart
    /\ timer = TRUE
    /\ rendered = Rendered(TRUE, FALSE, FALSE, result)

ConverterNext ==
    \/ Select
    \/ PerformConversion
    \/ RateReturned
    \/ ConversionReturned
    \/ ConversionThrown
    \/ Render
    \/ Cleanup
    \/ FetchResponds
    \/ FetchSucceeds
    \/ FetchFails
    \/ Tick

ConverterSpec == ConverterInit /\ [][ConverterNext]_vars

(***************************************************************************)
(* calculateLoanPayment in whole numbers of any size                       *)
(***************************************************************************)
\* A natural number of any size is the sequence of its digits to the base
\* 1000, the lowest first and the highest not 0; 0 is the empty sequence.
Base == 10 * 10 * 10

RECURSIVE Big(_)
Big(n) == IF n = 0 THEN <<>> ELSE <<n % Base>> \o Big(n \div Base)

\* a times the small number m (below 2 000 000), from digit i on
RECURSIVE BigTimesFrom(_, _, _, _)
BigTimesFrom(a, m, i, carry) ==
    IF i > Len(a) THEN Big(carry)
    ELSE LET t == a[i] * m + carry
         IN  <<t % Base>> \o BigTimesFrom(a, m, i + 1, t \div Base)

BigTimes(a, m) == IF m = 0 THEN <<>> ELSE BigTimesFrom(a, m, 1, 0)

\* a without its highest digits that are 0
RECURSIVE BigTrim(_)
BigTrim(a) ==
    IF a = <<>> THEN a
    ELSE IF a[Len(a)] = 0 THEN BigTrim(SubSeq(a, 1, Len(a) - 1))
    ELSE a

\* a - b for a >= b, from digit i on
RECURSIVE BigMinusFrom(_, _, _, _)
BigMinusFrom(a, b, i, borrow) ==
    IF i > Len(a) THEN <<>>
    ELSE LET t == a[i] - (IF i <= Len(b) THEN b[i] ELSE 0) - borrow
         IN  IF t < 0 THEN <<t + Base>> \o BigMinusFrom(a, b, i + 1, 1)
             ELSE <<t>> \o BigMinusFrom(a, b, i + 1, 0)

BigMinus(a, b) == BigTrim(BigMinusFrom(a, b, 1, 0))

\* a < b: by the number of digits, then by the highest digit that differs
RECURSIVE BigLessFrom(_, _, _)
BigLessFrom(a, b, i) ==
    IF i = 0 THEN FALSE
    ELSE IF a[i] # b[i] THEN a[i] < b[i]
    ELSE BigLessFrom(a, b, i - 1)

BigLess(a, b) ==
    IF Len(a) # Len(b) THEN Len(a) < Len(b) ELSE BigLessFrom(a, b, Len(a))

\* the loan of the first scenario of the specification, 25000 at 7.5% over
\* 5 years, and the same loan over shorter terms
Scenarios == { Loan(Num(25000), <<15, 2>>, Num(y)) : y \in 1..5 }

\* Math.pow(1 + monthlyRate, numPayments) for monthlyRate = p / q is
\* (p + q)^n / q^n: the two powers after k of the n factors
PowerStart == [called |-> TRUE, k |-> 0, a |-> Big(1), b |-> Big(1)]

PowerContinues(s) == s.k < numPayments[1]

PowerIterate(s) ==
    [s EXCEPT !.k = s.k + 1,
              !.a = BigTimes(s.a, monthlyRate[1] + monthlyRate[2]),
              !.b = BigTimes(s.b, monthlyRate[2])]

\* a payment without the power in the numerator, principal * monthlyRate /
\* (pow - 1): not the code's, C26 fails for it
BigPaymentWithoutGrowth(s) ==
    <<BigTimes(BigTimes(s.b, principal[1]), monthlyRate[1]),
      BigTimes(BigMinus(s.a, s.b), monthlyRate[2])>>

\* (principal * (monthlyRate * pow)) / (pow - 1) as a fraction of whole
\* numbers: principal * p * a over q * (a - b)
BigMonthlyPayment(s) ==
    <<BigTimes(BigTimes(s.a, principal[1]), monthlyRate[1]),
      BigTimes(BigMinus(s.a, s.b), monthlyRate[2])>>

\* totalPayment = monthlyPayment * numPayments
BigTotalPayment(s) ==
    <<BigTimes(BigMonthlyPayment(s)[1], numPayments[1]), BigMonthlyPayment(s)[2]>>

\* totalInterest = totalPayment - principal
BigTotalInterest(s) ==
    <<BigMinus(BigTotalPayment(s)[1],
               BigTimes(BigTotalPayment(s)[2], principal[1])),
      BigTotalPayment(s)[2]>>

\* the LoanResult of calculateLoanPayment for a loan with interest
BigLoanResult(s) ==
    [called |-> TRUE, monthlyPayment |-> BigMonthlyPayment(s),
     totalPayment |-> BigTotalPayment(s), totalInterest |-> BigTotalInterest(s)]

\* one factor of the power
ScenarioPower ==
    /\ pc = "Math.pow"
    /\ PowerContinues(power)
    /\ power' = PowerIterate(power)
    /\ UNCHANGED <<principal, annualRate, years, extraPayment, pc, loanResult,
                   sim, extraResult, ext, extSchedule, extY, extScheduleY, amort,
                   schedule, amortY, scheduleY, productVars, investVars,
                   currencyVars, scenarioResult>>

\* the power is computed: the payment and the totals are returned
ScenarioReturn ==
    /\ pc = "Math.pow"
    /\ ~PowerContinues(power)
    /\ scenarioResult' = BigLoanResult(power)
    /\ pc' = "scenarioReturned"
    /\ UNCHANGED <<principal, annualRate, years, extraPayment, loanResult,
                   sim, extraResult, ext, extSchedule, extY, extScheduleY, amort,
                   schedule, amortY, scheduleY, productVars, investVars,
                   currencyVars, power>>

ScenarioInit ==
    /\ \E l \in Scenarios :
          /\ principal = l.principal
          /\ annualRate = l.annualRate
          /\ years = l.years
    /\ pc = "Math.pow"
    /\ power = PowerStart
    /\ scenarioResult = NotCalled
    /\ ResultsIdle
    /\ CurrencyInit

ScenarioNext ==
    \/ ScenarioPower
    \/ ScenarioReturn

ScenarioSpec == ScenarioInit /\ [][ScenarioNext]_vars

(***************************************************************************)
(* The driver: the functions are called in turn on one loan and policy     *)
(***************************************************************************)
Init ==
    /\ \E l \in Loans :
          /\ principal = l.principal
          /\ annualRate = l.annualRate
          /\ years = l.years
    /\ extraPayment \in Policies
    /\ pc = "calculateLoanPayment"
    /\ loanResult = NotCalled
    /\ sim = NotCalled
    /\ extraResult = NotCalled
    /\ ext = NotCalled
    /\ extSchedule = <<>>
    /\ extY = NotCalled
    /\ extScheduleY = <<>>
    /\ amort = NotCalled
    /\ schedule = <<>>
    /\ amortY = NotCalled
    /\ scheduleY = <<>>
    /\ gracePeriodMonths = Zero
    /\ gracePeriodType = "none"
    /\ graceResult = NotCalled
    /\ balloonResult = NotCalled
    /\ bulletResult = NotCalled
    /\ initial = Zero
    /\ monthly = Zero
    /\ investmentResult = NotCalled
    /\ invest = NotCalled
    /\ investmentSchedule = <<>>
    /\ CurrencyInit
    /\ ScenarioIdle

\* the same calls on the loans, policies and grace periods of the products
ProductInit ==
    /\ \E l \in ProductLoans :
          /\ principal = l.principal
          /\ annualRate = l.annualRate
          /\ years = l.years
    /\ extraPayment \in ProductPolicies
    /\ gracePeriodMonths \in GracePeriodMonths
    /\ gracePeriodType \in GracePeriodTypes
    /\ pc = "calculateLoanPayment"
    /\ loanResult = NotCalled
    /\ sim = NotCalled
    /\ extraResult = NotCalled
    /\ ext = NotCalled
    /\ extSchedule = <<>>
    /\ extY = NotCalled
    /\ extScheduleY = <<>>
    /\ amort = NotCalled
    /\ schedule = <<>>
    /\ amortY = NotCalled
    /\ scheduleY = <<>>
    /\ graceResult = NotCalled
    /\ balloonResult = NotCalled
    /\ bulletResult = NotCalled
    /\ initial = Zero
    /\ monthly = Zero
    /\ investmentResult = NotCalled
    /\ invest = NotCalled
    /\ investmentSchedule = <<>>
    /\ CurrencyInit
    /\ ScenarioIdle

Next ==
    \/ CallLoanPayment
    \/ ExtraPaymentsEnter
    \/ ExtraPaymentsLoop
    \/ ExtraPaymentsReturn
    \/ ScheduleWithExtraEnter
    \/ ScheduleWithExtraLoop
    \/ ScheduleWithExtraReturn
    \/ ScheduleWithExtraYearlyEnter
    \/ ScheduleWithExtraYearlyLoop
    \/ ScheduleWithExtraYearlyMonth
    \/ ScheduleWithExtraYearlyPush
    \/ ScheduleWithExtraYearlyReturn
    \/ ScheduleEnter
    \/ ScheduleLoop
    \/ ScheduleReturn
    \/ ScheduleYearlyEnter
    \/ ScheduleYearlyLoop
    \/ ScheduleYearlyMonth
    \/ ScheduleYearlyPush
    \/ ScheduleYearlyReturn
    \/ CallLoanWithGracePeriod
    \/ CallBalloonLoan
    \/ CallBulletLoan

Spec == Init /\ [][Next]_vars

ProductSpec == ProductInit /\ [][Next]_vars

(***************************************************************************)
(* Investment growth: calculateInvestment and generateInvestmentSchedule   *)
(***************************************************************************)
\* the investments the two functions are run on: with and without interest,
\* with and without an initial balance or a contribution, over no year, whole
\* years and a year and a half, and one with a negative return
Investment(i, m, rate, y) ==
    [initial |-> i, monthly |-> m, annualRate |-> rate, years |-> y]

Investments ==
    { Investment(Num(10), Num(5), Num(1200), y) : y \in {Zero, One, Num(2)} }
    \cup { Investment(Num(1000), Num(100), Zero, y) : y \in {Zero, One, Num(2)} }
    \cup { Investment(Num(4096), Num(64), Num(600), One),
           Investment(Num(4096), Zero, Num(600), One),
           Investment(Zero, Num(64), Num(600), One),
           Investment(Num(1000), Num(100), Zero, <<3, 2>>),
           Investment(Num(10), Num(5), Num(1200), <<3, 2>>),
           Investment(Num(4096), Num(64), Num(-600), One) }

\* const numMonths = years * 12
numMonths == Mul(years, Num(12))

InvestmentResult(fv, tc, ti) ==
    [called |-> TRUE, futureValue |-> fv, totalContributions |-> tc,
     totalInterest |-> ti]

\* const fvInitial = initial * Math.pow(1 + monthlyRate, numMonths)
fvInitial == Mul(initial, Pow(Add(One, monthlyRate), numMonths))

\* if (monthlyRate > 0) fvContributions = monthly * ((pow - 1) / monthlyRate)
\* else fvContributions = monthly * numMonths
fvContributions ==
    IF Gt(monthlyRate, Zero)
    THEN Mul(monthly, Div(Sub(Pow(Add(One, monthlyRate), numMonths), One),
                          monthlyRate))
    ELSE Mul(monthly, numMonths)

calculateInvestment ==
    LET futureValue        == Add(fvInitial, fvContributions)
        totalContributions == Add(initial, Mul(monthly, numMonths))
    IN  InvestmentResult(futureValue, totalContributions,
                         Sub(futureValue, totalContributions))

CallInvestment ==
    /\ pc = "calculateInvestment"
    /\ investmentResult' = calculateInvestment
    /\ pc' = "generateInvestmentSchedule"
    /\ UNCHANGED <<currencyVars, scenarioVars>>
    /\ UNCHANGED <<loanVars, productVars, annualRate, years, initial, monthly,
                   invest, investmentSchedule>>

InvestmentGrowthRow(y, c, i, b) ==
    [year |-> y, contributions |-> c, interest |-> i, balance |-> b]

\* the locals before the loop over the years
InvestStart ==
    [called |-> TRUE, monthlyRate |-> monthlyRate, balance |-> initial,
     totalContributions |-> initial, year |-> 1, month |-> 1,
     yearlyInterest |-> Zero]

\* year <= years, month <= 12
InvestYearContinues(s) == Le(Num(s.year), years)
InvestMonthContinues(s) == s.month <= 12

\* one month: the interest on the balance and the contribution are added
InvestMonthIterate(s) ==
    LET interest == Mul(s.balance, s.monthlyRate)
    IN  [s EXCEPT !.balance = Add(s.balance, Add(interest, monthly)),
                  !.yearlyInterest = Add(s.yearlyInterest, interest),
                  !.totalContributions = Add(s.totalContributions, monthly),
                  !.month = s.month + 1]

\* the interest of a row as that of its year alone: not the code's, C19
\* fails for it
InvestRowInterestOfYear(s) == s.yearlyInterest

\* interest: balance - totalContributions
InvestRowInterest(s) == Sub(s.balance, s.totalContributions)

InvestYearRow(s) ==
    InvestmentGrowthRow(s.year, s.totalContributions, InvestRowInterest(s),
                        s.balance)

\* the locals are set and the row of year 0 is pushed
InvestmentScheduleEnter ==
    /\ pc = "generateInvestmentSchedule"
    /\ invest' = InvestStart
    /\ investmentSchedule' = <<InvestmentGrowthRow(0, initial, Zero, initial)>>
    /\ pc' = "investmentYears"
    /\ UNCHANGED <<currencyVars, scenarioVars>>
    /\ UNCHANGED <<loanVars, productVars, annualRate, years, initial, monthly,
                   investmentResult>>

\* a year begins
InvestmentScheduleYear ==
    /\ pc = "investmentYears"
    /\ InvestYearContinues(invest)
    /\ invest' = [invest EXCEPT !.yearlyInterest = Zero, !.month = 1]
    /\ pc' = "investmentMonths"
    /\ UNCHANGED <<currencyVars, scenarioVars>>
    /\ UNCHANGED <<loanVars, productVars, annualRate, years, initial, monthly,
                   investmentResult, investmentSchedule>>

InvestmentScheduleMonth ==
    /\ pc = "investmentMonths"
    /\ InvestMonthContinues(invest)
    /\ invest' = InvestMonthIterate(invest)
    /\ UNCHANGED <<currencyVars, scenarioVars>>
    /\ UNCHANGED <<loanVars, productVars, annualRate, years, initial, monthly,
                   pc, investmentResult, investmentSchedule>>

\* the row of the year is pushed
InvestmentSchedulePush ==
    /\ pc = "investmentMonths"
    /\ ~InvestMonthContinues(invest)
    /\ investmentSchedule' = Append(investmentSchedule, InvestYearRow(invest))
    /\ invest' = [invest EXCEPT !.year = invest.year + 1]
    /\ pc' = "investmentYears"
    /\ UNCHANGED <<currencyVars, scenarioVars>>
    /\ UNCHANGED <<loanVars, productVars, annualRate, years, initial, monthly,
                   investmentResult>>

InvestmentScheduleReturn ==
    /\ pc = "investmentYears"
    /\ ~InvestYearContinues(invest)
    /\ pc' = "investmentReturned"
    /\ UNCHANGED <<currencyVars, scenarioVars>>
    /\ UNCHANGED <<loanVars, productVars, annualRate, years, initial, monthly,
                   investmentResult, invest, investmentSchedule>>

\* the two investment functions are called in turn on one investment
InvestmentInit ==
    /\ \E i \in Investments :
          /\ initial = i.initial
          /\ monthly = i.monthly
          /\ annualRate = i.annualRate
          /\ years = i.years
    /\ pc = "calculateInvestment"
    /\ investmentResult = NotCalled
    /\ invest = NotCalled
    /\ investmentSchedule = <<>>
    /\ principal = Zero
    /\ extraPayment = ExtraPaymentConfig("none", Zero, Zero, 1)
    /\ loanResult = NotCalled
    /\ sim = NotCalled
    /\ extraResult = NotCalled
    /\ ext = NotCalled
    /\ extSchedule = <<>>
    /\ extY = NotCalled
    /\ extScheduleY = <<>>
    /\ amort = NotCalled
    /\ schedule = <<>>
    /\ amortY = NotCalled
    /\ scheduleY = <<>>
    /\ gracePeriodMonths = Zero
    /\ gracePeriodType = "none"
    /\ graceResult = NotCalled
    /\ balloonResult = NotCalled
    /\ bulletResult = NotCalled
    /\ CurrencyInit
    /\ ScenarioIdle

InvestmentNext ==
    \/ CallInvestment
    \/ InvestmentScheduleEnter
    \/ InvestmentScheduleYear
    \/ InvestmentScheduleMonth
    \/ InvestmentSchedulePush
    \/ InvestmentScheduleReturn

InvestmentSpec == InvestmentInit /\ [][InvestmentNext]_vars

(***************************************************************************)
(* Properties                                                              *)
(***************************************************************************)
ValidInput   == ~InvalidInput
ActivePolicy == extraPayment.type # "none"

\* calculateLoanWithExtraPayments has returned
SimReturned == extraResult.called

\* ... and its result came out of the simulation loop
SimLoopReturned == SimReturned /\ ValidInput /\ ActivePolicy

\* generateAmortizationScheduleWithExtra (monthly) has returned
ExtReturned ==
    pc \notin {"calculateLoanPayment", "calculateLoanWithExtraPayments", "simulate",
               "generateAmortizationScheduleWithExtra", "extraMonthly"}

\* generateAmortizationScheduleWithExtra (yearly) has returned
ExtYearlyReturned ==
    /\ ExtReturned
    /\ pc \notin {"generateAmortizationScheduleWithExtraYearly", "extraYearly",
                  "extraYearlyMonths"}

\* all the functions have returned
AllReturned == pc = "done"

\* the extra amount of the active policy is not negative
NonNegativeExtras ==
    /\ extraPayment.type = "extra_monthly" => Le(Zero, extraPayment.extraMonthly)
    /\ extraPayment.type = "extra_yearly" => Le(Zero, extraPayment.extraYearlyAmount)

\* the sum of the payment fields of rows lo..hi
RECURSIVE SumPaymentsOf(_, _, _)
SumPaymentsOf(rows, lo, hi) ==
    IF lo > hi THEN Zero
    ELSE IF lo = hi THEN rows[lo].payment
    ELSE LET mid == (lo + hi) \div 2
         IN  Add(SumPaymentsOf(rows, lo, mid), SumPaymentsOf(rows, mid + 1, hi))

SumPayments(rows) == SumPaymentsOf(rows, 1, Len(rows))

Last(rows) == rows[Len(rows)]

\* the balance before row i of a schedule
BalanceBefore(rows, i) == IF i = 1 THEN principal ELSE rows[i - 1].balance

\* C1: for principal > 0, rate >= 0, years > 0 and every active policy, the
\* simulator and the monthly generator agree: actualMonths is the number of
\* rows, and actualTotalInterest is the totalInterest of the last row.
C1_SimulatorAgreesWithGenerator ==
    (SimLoopReturned /\ ExtReturned) =>
        /\ extraResult.actualMonths = Num(Len(extSchedule))
        /\ extSchedule # <<>> =>
               extraResult.actualTotalInterest = Last(extSchedule).totalInterest

\* C2: for every active policy the simulator's actualTotalPayment is the sum
\* of the payment fields of the rows of the monthly generator.
C2_TotalPaymentIsSumOfRows ==
    (SimLoopReturned /\ ExtReturned) =>
        extraResult.actualTotalPayment = SumPayments(extSchedule)

\* C3: in every simulated month the amount added to actualTotalPayment is the
\* month's interest plus the reduction of the balance and is at most
\* balance + interest; so when a month pays the loan off, actualTotalPayment
\* = principal + actualTotalInterest.
C3_AppliedAmountIsCapped ==
    [][ExtraPaymentsLoop =>
         LET interest == Mul(sim.balance, sim.monthlyRate)
             added    == Sub(sim'.totalPaid, sim.totalPaid)
         IN  /\ added = Add(interest, Sub(sim.balance, sim'.balance))
             /\ Le(added, Add(sim.balance, interest))
             /\ sim'.balance = Zero =>
                    sim'.totalPaid = Add(principal, sim'.totalInterest)]_vars

\* the rows of a schedule satisfy the balance recurrence
BalanceRecurrence(rows) ==
    \A i \in 1..Len(rows) :
        /\ rows[i].balance =
               Max(Zero, Sub(BalanceBefore(rows, i), rows[i].principal))
        /\ Le(Zero, rows[i].balance)
        /\ Le(rows[i].balance, BalanceBefore(rows, i))

\* C4: in every monthly schedule of generateAmortizationSchedule and (with
\* extras >= 0) of generateAmortizationScheduleWithExtra, each row has
\* balance[i] = max(0, balance[i-1] - principal[i]), balance[i] >= 0 and
\* balance[i] <= balance[i-1], where balance[0] = principal.
C4_BalanceRecurrence ==
    ValidInput =>
        /\ BalanceRecurrence(schedule)
        /\ NonNegativeExtras => BalanceRecurrence(extSchedule)

\* both monthly schedules are complete for a loan with interest, and the
\* last row of the schedule with extras was capped at the balance
C4_Witness ==
    /\ AllReturned /\ ValidInput /\ ActivePolicy /\ NonNegativeExtras
    /\ monthlyRate # Zero
    /\ Len(schedule) >= 3
    /\ Len(extSchedule) >= 2
    /\ Lt(Last(extSchedule).principal,
          Add(Sub(ext.standardMonthlyPayment, Last(extSchedule).interest),
              ExtExtra(extraPayment, ext, Len(extSchedule))))

\* C5: for whole years the schedule of generateAmortizationSchedule has
\* years * 12 monthly rows (years yearly rows) and its last row has balance
\* 0 within the tolerance 0.01; with extras >= 0 the last row of
\* generateAmortizationScheduleWithExtra has a balance of at most 0.01.
C5_FullyAmortized ==
    (AllReturned /\ ValidInput /\ IsWhole(years)) =>
        /\ Num(Len(schedule)) = numPayments
        /\ Le(Zero, Last(schedule).balance)
        /\ Le(Last(schedule).balance, Epsilon)
        /\ Num(Len(scheduleY)) = years
        /\ Le(Zero, Last(scheduleY).balance)
        /\ Le(Last(scheduleY).balance, Epsilon)
        /\ (NonNegativeExtras /\ extSchedule # <<>>) =>
               Le(Last(extSchedule).balance, Epsilon)
        /\ (NonNegativeExtras /\ extScheduleY # <<>>) =>
               Le(Last(extScheduleY).balance, Epsilon)

\* a one-year loan with interest, still owing before its last month, and
\* paid off early by the extras
C5_Witness ==
    /\ AllReturned /\ ValidInput /\ IsWhole(years)
    /\ monthlyRate # Zero
    /\ ActivePolicy /\ NonNegativeExtras
    /\ Len(schedule) = 12 /\ Len(scheduleY) = 1
    /\ Len(extSchedule) \in 2..11 /\ Len(extScheduleY) = 1
    /\ Gt(schedule[11].balance, Epsilon)

\* the three month loops have been entered
SimEntered      == sim # NotCalled
ExtEntered      == ext # NotCalled
ExtYearlyEntered == extY # NotCalled

\* C6 as claimed: for every valid input and every policy, the month loops of
\* calculateLoanWithExtraPayments and generateAmortizationScheduleWithExtra
\* run at most 2 * years * 12 times, and on exit either balance <= 0.01 or
\* the month count equals the cap 2 * years * 12.
C6_LoopsStopAtCap ==
    /\ SimEntered =>
          /\ Le(Num(sim.months), maxMonths)
          /\ SimReturned =>
                 (Le(sim.balance, Epsilon) \/ Num(sim.months) = maxMonths)
    /\ ExtEntered =>
          /\ Le(Num(ext.month), maxMonths)
          /\ ExtReturned =>
                 (Le(ext.balance, Epsilon) \/ Num(ext.month) = maxMonths)
    /\ ExtYearlyEntered =>
          /\ Le(Num(extY.month), maxMonths)
          /\ ExtYearlyReturned =>
                 (Le(extY.balance, Epsilon) \/ Num(extY.month) = maxMonths)

\* C6 as amended: the loops of the simulator and of the monthly schedule run
\* fewer than 2 * years * 12 + 1 times, the months of the yearly schedule
\* fewer than 2 * years * 12 + 12 times; for whole years none runs more than
\* 2 * years * 12 times; and on exit either balance <= 0.01 or the month
\* count has reached 2 * years * 12.
C6_LoopsStopWithinCap ==
    /\ SimEntered =>
          /\ Lt(Num(sim.months), Add(maxMonths, One))
          /\ SimReturned =>
                 (Le(sim.balance, Epsilon) \/ Le(maxMonths, Num(sim.months)))
    /\ ExtEntered =>
          /\ Lt(Num(ext.month), Add(maxMonths, One))
          /\ ExtReturned =>
                 (Le(ext.balance, Epsilon) \/ Le(maxMonths, Num(ext.month)))
    /\ ExtYearlyEntered =>
          /\ Lt(Num(extY.month), Add(maxMonths, Num(12)))
          /\ IsWhole(years) => Le(Num(extY.month), maxMonths)
          /\ ExtYearlyReturned =>
                 (Le(extY.balance, Epsilon) \/ Le(maxMonths, Num(extY.month)))

\* a policy that never pays the loan off: all three loops stopped at the cap
\* with the balance still owed, for a term that is not a whole number of months
C6_Witness ==
    /\ AllReturned /\ ValidInput /\ ActivePolicy
    /\ ~IsWhole(maxMonths)
    /\ Gt(sim.balance, Epsilon) /\ Lt(maxMonths, Num(sim.months))
    /\ Gt(ext.balance, Epsilon) /\ Lt(maxMonths, Num(ext.month))
    /\ Gt(extY.balance, Epsilon) /\ Lt(maxMonths, Num(extY.month))

\* C7: monthsSaved = max(0, standardMonths - actualMonths) and interestSaved =
\* max(0, standardTotalInterest - actualTotalInterest) for every input, so
\* neither is negative, also when the policy lengthens the payoff.
C7_SavingsClamped ==
    SimReturned =>
        /\ extraResult.monthsSaved =
               Max(Zero, Sub(extraResult.standardMonths, extraResult.actualMonths))
        /\ extraResult.interestSaved =
               Max(Zero, Sub(extraResult.standardTotalInterest,
                             extraResult.actualTotalInterest))
        /\ Le(Zero, extraResult.monthsSaved)
        /\ Le(Zero, extraResult.interestSaved)

\* a policy that lengthened the payoff and cost more interest
C7_Witness ==
    /\ SimLoopReturned
    /\ Gt(extraResult.actualMonths, extraResult.standardMonths)
    /\ Gt(extraResult.actualTotalInterest, extraResult.standardTotalInterest)
    /\ extraResult.monthsSaved = Zero
    /\ extraResult.interestSaved = Zero

\* the policy extra_monthly with extraMonthly = e
ExtraMonthly(e) == ExtraPaymentConfig("extra_monthly", e, Zero, 1)

\* actualMonths of the simulation with extraMonthly = e
ActualMonthsWith(e) == SimRun(ExtraMonthly(e), SimStart(ExtraMonthly(e))).months

\* C8: for a fixed loan and policy extra_monthly, 0 <= e1 <= e2 implies
\* actualMonths(e2) <= actualMonths(e1).
C8_PayoffMonotoneInExtra ==
    (pc = "generateAmortizationScheduleWithExtra" /\ SimLoopReturned
        /\ extraPayment.type = "extra_monthly"
        /\ Le(Zero, extraPayment.extraMonthly)) =>
        \A e2 \in ExtraAmounts :
            Le(extraPayment.extraMonthly, e2) =>
                Le(Num(ActualMonthsWith(e2)), extraResult.actualMonths)

\* a loan with interest that a larger extra pays off strictly sooner
C8_Witness ==
    /\ pc = "generateAmortizationScheduleWithExtra" /\ SimLoopReturned
    /\ extraPayment.type = "extra_monthly"
    /\ Gt(extraPayment.extraMonthly, Zero)
    /\ monthlyRate # Zero
    /\ \E e2 \in ExtraAmounts :
           /\ Lt(extraPayment.extraMonthly, e2)
           /\ Lt(Num(ActualMonthsWith(e2)), extraResult.actualMonths)

\* C9: no row of generateAmortizationScheduleWithExtra reports a balance that
\* is positive but at most 0.01; when the loop stops because balance <= 0.01
\* the last reported balance is 0.
C9_NoResidualReported ==
    ValidInput =>
        /\ \A i \in 1..Len(extSchedule) :
               ~(Gt(extSchedule[i].balance, Zero)
                    /\ Le(extSchedule[i].balance, Epsilon))
        /\ (ExtReturned /\ extSchedule # <<>> /\ Le(ext.balance, Epsilon)) =>
               Last(extSchedule).balance = Zero

\* C10: for type "none" and a valid input the result has actualMonths =
\* standardMonths = years * 12, the actual totals equal to the standard
\* ones, no savings, and standard fields equal to calculateLoanPayment's.
C10_NoneMirrorsStandard ==
    (SimReturned /\ ValidInput /\ ~ActivePolicy) =>
        /\ extraResult.actualMonths = extraResult.standardMonths
        /\ extraResult.standardMonths = Mul(years, Num(12))
        /\ extraResult.actualTotalPayment = extraResult.standardTotalPayment
        /\ extraResult.actualTotalInterest = extraResult.standardTotalInterest
        /\ extraResult.monthsSaved = Zero
        /\ extraResult.interestSaved = Zero
        /\ extraResult.standardMonthlyPayment = loanResult.monthlyPayment
        /\ extraResult.standardTotalPayment = loanResult.totalPayment
        /\ extraResult.standardTotalInterest = loanResult.totalInterest

\* a loan with interest under type "none"
C10_Witness ==
    /\ SimReturned /\ ValidInput /\ ~ActivePolicy
    /\ monthlyRate # Zero
    /\ Gt(loanResult.totalInterest, Zero)
    /\ extraResult.actualMonths = Num(12)

(***************************************************************************)
(* Properties of calculateLoanPayment and of the other loan products       *)
(***************************************************************************)
\* the monthly rate and the number of payments, written out from the arguments
RateOf(rate) == Div(Div(rate, Num(100)), Num(12))
TermOf(y)    == Mul(y, Num(12))

\* the arguments pass the guard of the functions, written out
PositiveLoan == Gt(principal, Zero) /\ Gt(years, Zero)

\* C11: for principal > 0, rate >= 0, years > 0, calculateLoanPayment returns
\* totalPayment = monthlyPayment * years * 12 and totalInterest =
\* totalPayment - principal.
C11_TotalsOfLoanPayment ==
    (loanResult.called /\ PositiveLoan) =>
        /\ loanResult.totalPayment =
               Mul(Mul(loanResult.monthlyPayment, years), Num(12))
        /\ loanResult.totalInterest = Sub(loanResult.totalPayment, principal)

\* a loan with interest has been computed
C11_Witness ==
    /\ loanResult.called /\ PositiveLoan
    /\ Gt(annualRate, Zero)
    /\ Gt(loanResult.totalInterest, Zero)
    /\ Gt(loanResult.totalPayment, principal)

\* C12: for rate = 0, principal > 0, years > 0, calculateLoanPayment returns
\* monthlyPayment = principal / (years * 12), totalPayment = principal and
\* totalInterest = 0.
C12_InterestFreeLoanPayment ==
    (loanResult.called /\ PositiveLoan /\ annualRate = Zero) =>
        /\ loanResult.monthlyPayment = Div(principal, Mul(years, Num(12)))
        /\ loanResult.totalPayment = principal
        /\ loanResult.totalInterest = Zero

\* an interest-free loan over a term that is no whole number of months
C12_Witness ==
    /\ loanResult.called /\ PositiveLoan /\ annualRate = Zero
    /\ ~IsWhole(Mul(years, Num(12)))
    /\ loanResult.monthlyPayment = Num(8)

\* every numeric field of a result is 0
AllZero(r, fields) == \A f \in fields : r[f] = Zero

\* C13: when principal <= 0 or years <= 0, calculateLoanPayment,
\* calculateLoanWithGracePeriod, calculateBalloonLoan, calculateBulletLoan and
\* calculateLoanWithExtraPayments return results whose numeric fields are all
\* 0, and both schedule generators return the empty sequence.
C13_ZeroResultsOnInvalidInput ==
    (Le(principal, Zero) \/ Le(years, Zero)) =>
        /\ loanResult.called =>
               AllZero(loanResult, {"monthlyPayment", "totalPayment", "totalInterest"})
        /\ extraResult.called =>
               AllZero(extraResult,
                       {"standardMonthlyPayment", "standardTotalPayment",
                        "standardTotalInterest", "standardMonths", "actualMonths",
                        "actualTotalPayment", "actualTotalInterest", "monthsSaved",
                        "interestSaved", "effectiveMonthlyPayment"})
        /\ graceResult.called =>
               AllZero(graceResult,
                       {"monthlyPayment", "gracePayment", "totalPayment",
                        "totalInterest", "principalAfterGrace", "graceInterest"})
        /\ balloonResult.called =>
               AllZero(balloonResult,
                       {"monthlyPayment", "balloonPayment", "totalPayment",
                        "totalInterest"})
        /\ bulletResult.called =>
               AllZero(bulletResult,
                       {"monthlyPayment", "finalPayment", "totalPayment",
                        "totalInterest"})
        /\ extSchedule = <<>> /\ extScheduleY = <<>>
        /\ schedule = <<>> /\ scheduleY = <<>>
        /\ pc \notin {"simulate", "extraMonthly", "extraYearly", "extraYearlyMonths",
                      "monthly", "yearly", "yearlyMonths"}

\* every function has returned for a negative principal with interest, an
\* active policy and a grace period
C13_Witness ==
    /\ AllReturned
    /\ Lt(principal, Zero) /\ Gt(annualRate, Zero)
    /\ ActivePolicy
    /\ gracePeriodType = "no_payment" /\ gracePeriodMonths = Num(2)
    /\ loanResult.called /\ extraResult.called /\ graceResult.called
    /\ balloonResult.called /\ bulletResult.called

\* calculateLoanWithGracePeriod has returned for a grace period of the type
GraceReturned(type) ==
    /\ graceResult.called /\ PositiveLoan
    /\ gracePeriodType = type /\ Gt(gracePeriodMonths, Zero)

\* C14: for type no_payment with graceMonths > 0, principalAfterGrace =
\* principal * (1 + r)^graceMonths with r = annualRate / 100 / 12,
\* graceInterest = principalAfterGrace - principal and gracePayment = 0.
C14_NoPaymentGraceCapitalizes ==
    GraceReturned("no_payment") =>
        /\ graceResult.principalAfterGrace =
               Mul(principal, Pow(Add(One, RateOf(annualRate)), gracePeriodMonths))
        /\ graceResult.graceInterest =
               Sub(graceResult.principalAfterGrace, principal)
        /\ graceResult.gracePayment = Zero

\* two months of grace on a loan with interest: the interest is compounded
C14_Witness ==
    /\ GraceReturned("no_payment")
    /\ gracePeriodMonths = Num(2) /\ Gt(annualRate, Zero)
    /\ Gt(graceResult.principalAfterGrace,
          Add(principal, Mul(Num(2), Mul(principal, RateOf(annualRate)))))

\* C15: for type interest_only with graceMonths > 0, gracePayment =
\* principal * r, graceInterest = gracePayment * graceMonths and
\* principalAfterGrace = principal.
C15_InterestOnlyGrace ==
    GraceReturned("interest_only") =>
        /\ graceResult.gracePayment = Mul(principal, RateOf(annualRate))
        /\ graceResult.graceInterest =
               Mul(graceResult.gracePayment, gracePeriodMonths)
        /\ graceResult.principalAfterGrace = principal

\* two months of interest-only grace on a loan with interest
C15_Witness ==
    /\ GraceReturned("interest_only")
    /\ gracePeriodMonths = Num(2) /\ Gt(annualRate, Zero)
    /\ Gt(graceResult.graceInterest, graceResult.gracePayment)

\* C16: for both grace types with graceMonths > 0, monthlyPayment is the
\* monthlyPayment of calculateLoanPayment(principalAfterGrace, rate, years),
\* totalPayment = gracePayment * graceMonths + monthlyPayment * years * 12 and
\* totalInterest = totalPayment - principal.
C16_AmortizationAfterGrace ==
    (GraceReturned("no_payment") \/ GraceReturned("interest_only")) =>
        /\ graceResult.monthlyPayment =
               LoanPaymentOf(graceResult.principalAfterGrace, annualRate,
                             years).monthlyPayment
        /\ graceResult.totalPayment =
               Add(Mul(graceResult.gracePayment, gracePeriodMonths),
                   Mul(Mul(graceResult.monthlyPayment, years), Num(12)))
        /\ graceResult.totalInterest = Sub(graceResult.totalPayment, principal)

\* a capitalized grace period raised the monthly payment of a loan with interest
C16_Witness ==
    /\ GraceReturned("no_payment")
    /\ Gt(annualRate, Zero) /\ loanResult.called
    /\ Gt(graceResult.monthlyPayment, loanResult.monthlyPayment)
    /\ Gt(graceResult.totalInterest, loanResult.totalInterest)

\* C17: for principal > 0 and years > 0, calculateBalloonLoan returns
\* monthlyPayment = principal * r, balloonPayment = principal, totalInterest =
\* monthlyPayment * years * 12 and totalPayment = totalInterest + principal.
C17_BalloonLoan ==
    (balloonResult.called /\ PositiveLoan) =>
        /\ balloonResult.monthlyPayment = Mul(principal, RateOf(annualRate))
        /\ balloonResult.balloonPayment = principal
        /\ balloonResult.totalInterest =
               Mul(Mul(balloonResult.monthlyPayment, years), Num(12))
        /\ balloonResult.totalPayment =
               Add(balloonResult.totalInterest, principal)

\* a balloon loan with interest over more than one month
C17_Witness ==
    /\ balloonResult.called /\ PositiveLoan
    /\ Gt(annualRate, Zero)
    /\ Gt(balloonResult.totalInterest, balloonResult.monthlyPayment)

\* C18: for principal > 0 and years > 0, calculateBulletLoan returns
\* monthlyPayment = 0, finalPayment = principal * (1 + r)^(years * 12),
\* totalInterest = finalPayment - principal and totalPayment = finalPayment;
\* at rate 0 the final payment is the principal and the interest is 0.
C18_BulletLoan ==
    (bulletResult.called /\ PositiveLoan) =>
        /\ bulletResult.monthlyPayment = Zero
        /\ bulletResult.finalPayment =
               Mul(principal, Pow(Add(One, RateOf(annualRate)), TermOf(years)))
        /\ bulletResult.totalInterest = Sub(bulletResult.finalPayment, principal)
        /\ bulletResult.totalPayment = bulletResult.finalPayment
        /\ annualRate = Zero =>
               /\ bulletResult.finalPayment = principal
               /\ bulletResult.totalInterest = Zero

\* a bullet loan whose interest compounded over the term
C18_Witness ==
    /\ bulletResult.called /\ PositiveLoan
    /\ Gt(annualRate, Zero)
    /\ Gt(bulletResult.finalPayment,
          Add(principal, Mul(Mul(principal, RateOf(annualRate)), TermOf(years))))


(***************************************************************************)
(* Investment growth                                                       *)
(***************************************************************************)
InvestmentReturned == pc = "investmentReturned"

\* C19: generateInvestmentSchedule returns the rows of the years 0, 1, ...
\* in order, up to the last whole year within the term (the term itself when
\* it is a whole number of years); row 0 has contributions = initial,
\* interest = 0 and balance = initial; the row of year k has contributions =
\* initial + 12 * k * monthly; and every row has balance = contributions +
\* interest.
C19_InvestmentScheduleRows ==
    InvestmentReturned =>
        LET n == Len(investmentSchedule)
        IN  /\ n >= 1
            /\ Le(Zero, years) => Le(Num(n - 1), years) /\ Lt(years, Num(n))
            /\ (IsWhole(years) /\ Le(Zero, years)) => n - 1 = years[1]
            /\ investmentSchedule[1] = InvestmentGrowthRow(0, initial, Zero, initial)
            /\ \A k \in 1..n :
                  LET row == investmentSchedule[k]
                  IN  /\ row.year = k - 1
                      /\ row.contributions =
                             Add(initial, Mul(Num(12 * (k - 1)), monthly))
                      /\ row.balance = Add(row.contributions, row.interest)

\* a schedule of three rows was returned for an investment with interest and
\* a contribution
C19_Witness ==
    /\ InvestmentReturned
    /\ Len(investmentSchedule) = 3
    /\ Gt(monthlyRate, Zero)
    /\ Gt(monthly, Zero)
    /\ Gt(investmentSchedule[3].interest, Zero)

\* the relative tolerance of the cross-check of the two functions
Tolerance == <<1, 1000000>>

\* x agrees with y within the tolerance, relative to y
WithinTolerance(x, y) ==
    \/ x = y
    \/ /\ y # Zero
       /\ Le(Div(IF Lt(x, y) THEN Sub(y, x) ELSE Sub(x, y),
                 IF Lt(y, Zero) THEN Sub(Zero, y) ELSE y),
             Tolerance)

\* C20: on the same inputs, the futureValue of calculateInvestment agrees
\* within tolerance with the balance of the last row of
\* generateInvestmentSchedule, and its totalContributions with that row's
\* contributions.
C20_ClosedFormAgreesWithSchedule ==
    InvestmentReturned =>
        LET last == investmentSchedule[Len(investmentSchedule)]
        IN  /\ WithinTolerance(investmentResult.futureValue, last.balance)
            /\ WithinTolerance(investmentResult.totalContributions,
                               last.contributions)


(***************************************************************************)
(* The two granularities of the schedules                                  *)
(***************************************************************************)
\* the sum of the field f of rows lo..hi
RECURSIVE SumField(_, _, _, _)
SumField(rows, f, lo, hi) ==
    IF lo > hi THEN Zero
    ELSE IF lo = hi THEN rows[lo][f]
    ELSE LET mid == (lo + hi) \div 2
         IN  Add(SumField(rows, f, lo, mid), SumField(rows, f, mid + 1, hi))

\* the yearly rows are the monthly rows aggregated by 12, the last year
\* holding the months that remain
Aggregates(monthlyRows, yearlyRows) ==
    LET n  == Len(monthlyRows)
        nY == (n + 11) \div 12
    IN  /\ Len(yearlyRows) = nY
        /\ \A k \in 1..nY :
              LET lo  == 12 * (k - 1) + 1
                  hi  == IF 12 * k < n THEN 12 * k ELSE n
                  row == yearlyRows[k]
              IN  /\ row.period = k
                  /\ row.payment = SumField(monthlyRows, "payment", lo, hi)
                  /\ row.principal = SumField(monthlyRows, "principal", lo, hi)
                  /\ row.interest = SumField(monthlyRows, "interest", lo, hi)
                  /\ row.balance = monthlyRows[hi].balance
                  /\ row.totalPrincipal = monthlyRows[hi].totalPrincipal
                  /\ row.totalInterest = monthlyRows[hi].totalInterest

\* C21: for the same inputs the yearly schedule is the 12-month aggregation
\* of the monthly schedule, for generateAmortizationSchedule and for
\* generateAmortizationScheduleWithExtra: yearly row k has the sums of
\* payment, principal and interest over the monthly rows 12(k-1)+1..12k
\* (fewer in a final partial year) and the balance, totalPrincipal and
\* totalInterest of the last monthly row of that year.
C21_YearlyAggregatesMonthly ==
    AllReturned =>
        /\ Aggregates(schedule, scheduleY)
        /\ Aggregates(extSchedule, extScheduleY)


(***************************************************************************)
(* The month of the yearly extra                                           *)
(***************************************************************************)
\* the yearly extra is due in month m
YearlyExtraDue(m) == m % 12 = extraPayment.extraYearlyMonth % 12

\* the extra amount due in month m under extra_yearly
YearlyExtraOf(m) == IF YearlyExtraDue(m) THEN extraPayment.extraYearlyAmount ELSE Zero

\* the balance after a month with interest and base payment as in the code
\* and the extra e
BalanceAfter(balance, basePrincipal, e) ==
    Max(Zero, Sub(balance, Min(Add(basePrincipal, e), balance)))

\* C22: under extra_yearly with extraYearlyMonth in 1..12 the annual extra is
\* applied in month m exactly when m mod 12 = extraYearlyMonth mod 12, which
\* is once in every 12 consecutive months and first in month
\* extraYearlyMonth; the simulator, the monthly generator and the yearly
\* generator all reduce the balance by that extra in those months and by no
\* extra in the others.
C22_YearlyExtraInItsMonth ==
    [][(extraPayment.type = "extra_yearly"
          /\ extraPayment.extraYearlyMonth \in 1..12) =>
         /\ \A m0 \in 1..13 :
               Cardinality({m \in m0..(m0 + 11) : YearlyExtraDue(m)}) = 1
         /\ \A m \in 1..12 : YearlyExtraDue(m) <=> m = extraPayment.extraYearlyMonth
         /\ ExtraPaymentsLoop =>
               LET interest == Mul(sim.balance, sim.monthlyRate)
               IN  sim'.balance =
                       BalanceAfter(sim.balance,
                                    Sub(SimPayment(sim, interest), interest),
                                    YearlyExtraOf(sim'.months))
         /\ ScheduleWithExtraLoop =>
               LET interest == Mul(ext.balance, ext.monthlyRate)
               IN  ext'.balance =
                       BalanceAfter(ext.balance,
                                    Sub(ext.standardMonthlyPayment, interest),
                                    YearlyExtraOf(ext'.month))
         /\ ScheduleWithExtraYearlyMonth =>
               LET interest == Mul(extY.balance, extY.monthlyRate)
               IN  extY'.balance =
                       BalanceAfter(extY.balance,
                                    Sub(extY.standardMonthlyPayment, interest),
                                    YearlyExtraOf(extY'.month))]_vars

\* a yearly extra was applied in its month of the first and of the second
\* year, in the simulator and in both generators
C22_Witness ==
    /\ AllReturned
    /\ extraPayment.type = "extra_yearly"
    /\ Gt(extraPayment.extraYearlyAmount, Zero)
    /\ LET m == extraPayment.extraYearlyMonth
           p == Add(standardMonthlyPayment, extraPayment.extraYearlyAmount)
       IN  /\ Len(extSchedule) > m + 12
           /\ extSchedule[m].principal = p
           /\ extSchedule[m + 12].principal = p
           /\ extSchedule[m + 1].principal = standardMonthlyPayment
           /\ Len(extScheduleY) = 2
           /\ extScheduleY[2].balance = Last(extSchedule).balance
           /\ extraResult.actualMonths = Num(Len(extSchedule))


(***************************************************************************)
(* Conservation of the principal in the schedules                          *)
(***************************************************************************)
\* the totals of the row before row i
TotalsBefore(rows, i) ==
    IF i = 1 THEN [totalPrincipal |-> Zero, totalInterest |-> Zero]
    ELSE [totalPrincipal |-> rows[i - 1].totalPrincipal,
          totalInterest  |-> rows[i - 1].totalInterest]

\* balance + totalPrincipal is the original principal, the totals are the
\* running sums of the rows so far, and payment = principal + interest
Conserved(rows) ==
    \A i \in 1..Len(rows) :
        /\ Add(rows[i].balance, rows[i].totalPrincipal) = principal
        /\ rows[i].totalPrincipal =
               Add(TotalsBefore(rows, i).totalPrincipal, rows[i].principal)
        /\ rows[i].totalInterest =
               Add(TotalsBefore(rows, i).totalInterest, rows[i].interest)
        /\ rows[i].payment = Add(rows[i].principal, rows[i].interest)

\* C27: at every row of generateAmortizationSchedule and of
\* generateAmortizationScheduleWithExtra, monthly or yearly, balance +
\* totalPrincipal is the original principal, totalPrincipal and totalInterest
\* are the running sums of the principal and interest of the rows so far,
\* and payment = principal + interest.
C27_PrincipalConserved ==
    /\ Conserved(schedule)
    /\ Conserved(scheduleY)
    /\ Conserved(extSchedule)
    /\ Conserved(extScheduleY)

\* all four schedules were returned with rows, the last year of the schedule
\* with extras being a partial one
C27_Witness ==
    /\ AllReturned
    /\ ActivePolicy
    /\ Gt(monthlyRate, Zero)
    /\ schedule # <<>> /\ scheduleY # <<>>
    /\ extScheduleY # <<>>
    /\ Len(extSchedule) < Len(schedule)
    /\ Last(extSchedule).balance = Zero

(***************************************************************************)
(* The months of the simulation                                            *)
(***************************************************************************)
\* a number that is neither NaN nor an infinity
Finite(x) == x[2] # 0

\* C28: for principal > 0, years > 0 and an active policy,
\* calculateLoanWithExtraPayments simulates at least one month (actualMonths
\* >= 1), so effectiveMonthlyPayment = actualTotalPayment / actualMonths is a
\* finite number, also for principals at or below the epsilon 0.01.
C28_AtLeastOneMonth ==
    SimLoopReturned =>
        /\ Le(One, extraResult.actualMonths)
        /\ Finite(extraResult.effectiveMonthlyPayment)
        /\ extraResult.effectiveMonthlyPayment =
               Div(extraResult.actualTotalPayment, extraResult.actualMonths)

\* C29: for principal > 0, rate >= 0, years > 0 and an active policy with
\* non-negative extras, the simulation pays the loan off within the standard
\* term: it ends with balance <= 0.01 and actualMonths <= years * 12, not at
\* the safety cap, and actualTotalInterest <= standardTotalInterest.
C29_PaidOffWithinTerm ==
    (SimLoopReturned /\ NonNegativeExtras /\ Le(Zero, annualRate)) =>
        /\ Le(sim.balance, Epsilon)
        /\ Le(extraResult.actualMonths, numPayments)
        /\ Lt(extraResult.actualMonths, sim.maxMonths)
        /\ Le(extraResult.actualTotalInterest, extraResult.standardTotalInterest)


\* C29 as amended: when years * 12 is a whole number of months, the
\* simulation with non-negative extras ends with balance <= 0.01 and
\* actualMonths <= years * 12, not at the safety cap, and with
\* actualTotalInterest <= standardTotalInterest.
C29_PaidOffWithinWholeTerm ==
    (SimLoopReturned /\ NonNegativeExtras /\ Le(Zero, annualRate)
       /\ IsWhole(numPayments)) =>
        /\ Le(sim.balance, Epsilon)
        /\ Le(extraResult.actualMonths, numPayments)
        /\ Lt(extraResult.actualMonths, sim.maxMonths)
        /\ Le(extraResult.actualTotalInterest, extraResult.standardTotalInterest)

\* a loan with interest and an extra of 0 was paid off in the last month of
\* its term, with the interest of the standard loan
C29_Witness ==
    /\ SimLoopReturned
    /\ extraPayment.type = "extra_monthly"
    /\ extraPayment.extraMonthly = Zero
    /\ Gt(monthlyRate, Zero)
    /\ IsWhole(numPayments)
    /\ extraResult.actualMonths = numPayments
    /\ sim.balance = Zero
    /\ extraResult.actualTotalInterest = extraResult.standardTotalInterest


(***************************************************************************)
(* The exchange-rate lookup and its cache                                  *)
(***************************************************************************)
\* call k is made in this step, its request is answered in this step
Begins(k)   == calls[k].status = "idle" /\ calls'[k].status # "idle"
Answered(k) ==
    /\ calls[k].status \in {"fetching", "parsing"}
    /\ calls'[k].status \in {"returned", "thrown"}

\* the cache key of a call, and one hour in milliseconds
KeyOf(c) == c.from \o "-" \o c.to
OneHour  == 60 * 60 * 1000

\* C23: when the retrieval of the rate fails for from # to and no fresh
\* cache entry, getExchangeRate, convertAmount and convertCurrencyAmounts
\* fail with an error to their caller: a call without a fresh entry sends a
\* request, and when that fails the call throws and returns no rate of 1, no
\* stale cached rate and no other value.
C23_FailurePropagates ==
    [][\A k \in 1..MaxCalls :
          /\ (Begins(k) /\ calls'[k].from # calls'[k].to
                /\ ~(KeyOf(calls'[k]) \in DOMAIN exchangeRatesCache
                       /\ now < exchangeRatesCache[KeyOf(calls'[k])].fetchedAt
                                   + OneHour)) =>
                 (calls'[k].status = "fetching" /\ calls'[k].requests = 1)
          /\ (Answered(k) /\ FetchFails) =>
                 /\ calls'[k].status = "thrown"
                 /\ calls'[k].value = "Failed to get exchange rate"]_vars

\* each of the three functions has thrown
C23_Witness ==
    \A f \in {"getExchangeRate", "convertAmount", "convertCurrencyAmounts"} :
        \E k \in 1..MaxCalls :
            /\ calls[k].status = "thrown"
            /\ calls[k].fn = f
            /\ calls[k].from # calls[k].to

\* C24: the cache is keyed by the currency pair and bounded in time: a
\* lookup of a pair less than one hour after a successful lookup set the
\* entry of the pair returns the rate of that fetch and sends no request; a
\* lookup one hour after it or later sends a new request, whose response,
\* when the lookup succeeds, replaces the entry of that pair and of no other.
C24_CacheBoundedInTime ==
    [][\A k \in 1..MaxCalls :
          LET c   == calls'[k]
              key == KeyOf(c)
          IN  /\ (Begins(k) /\ c.from # c.to /\ key \in DOMAIN exchangeRatesCache
                     /\ ~RatesMissing(exchangeRatesCache[key])) =>
                    IF now < exchangeRatesCache[key].fetchedAt + OneHour
                    THEN /\ c.status = "returned"
                         /\ c.requests = 0
                         /\ c.value = ReturnedForRate(c.fn, c.amounts,
                                          CachedRate(exchangeRatesCache[key], c.to))
                    ELSE /\ c.status = "fetching"
                         /\ c.requests = 1
              /\ (Answered(k) /\ c.status = "returned") =>
                    /\ key \in DOMAIN exchangeRatesCache'
                    /\ exchangeRatesCache'[key].fetchedAt = now
                    /\ c.value = ReturnedForRate(c.fn, c.amounts,
                                     CachedRate(exchangeRatesCache'[key], c.to))
                    /\ \A other \in DOMAIN exchangeRatesCache \ {key} :
                          /\ other \in DOMAIN exchangeRatesCache'
                          /\ exchangeRatesCache'[other] = exchangeRatesCache[other]]_vars

\* three lookups of a pair: the first fetched the rate, the second returned
\* it from the cache, the third came an hour later and fetched another rate,
\* which replaced the entry
C24_Witness ==
    /\ \A k \in 1..3 :
          /\ calls[k].status = "returned"
          /\ calls[k].fn = "getExchangeRate"
          /\ KeyOf(calls[k]) = "USD-EUR"
    /\ calls[1].requests = 1
    /\ calls[2].requests = 0
    /\ calls[2].value = calls[1].value
    /\ calls[3].requests = 1
    /\ calls[3].value # calls[1].value
    /\ exchangeRatesCache["USD-EUR"].fetchedAt = OneHour
    /\ exchangeRatesCache["USD-EUR"].rates["EUR"] = calls[3].value

\* C25: a lookup can be retried: a failed call leaves the cache as it was; a
\* later call for the same pair that finds no fresh entry sends a new
\* request and on success returns the fetched rate; and with lookups running
\* at the same time the cache only ever changes by the entry of a successful
\* response being set.
C25_RetryableLookup ==
    [][/\ \A k \in 1..MaxCalls :
             /\ (Answered(k) /\ calls'[k].status = "thrown") =>
                    exchangeRatesCache' = exchangeRatesCache
             /\ (Begins(k) /\ calls'[k].from # calls'[k].to
                   /\ ~IsFresh(KeyOf(calls'[k]))) => calls'[k].requests = 1
       /\ exchangeRatesCache' # exchangeRatesCache =>
             \E k \in 1..MaxCalls :
                 LET c   == calls'[k]
                     key == KeyOf(c)
                 IN  /\ Answered(k)
                     /\ c.status = "returned"
                     /\ DOMAIN exchangeRatesCache' =
                            DOMAIN exchangeRatesCache \cup {key}
                     /\ \A other \in DOMAIN exchangeRatesCache \ {key} :
                            exchangeRatesCache'[other] = exchangeRatesCache[other]
                     /\ exchangeRatesCache'[key].base = c.from
                     /\ exchangeRatesCache'[key].fetchedAt = now
                     /\ c.value = ReturnedForRate(c.fn, c.amounts,
                                      CachedRate(exchangeRatesCache'[key], c.to))]_vars

(***************************************************************************)
(* The result the converter displays                                       *)
(***************************************************************************)
\* no timer is pending, every run of performConversion has set its result,
\* and the component is mounted and has rendered its state
Settled ==
    /\ ~timer
    /\ \A c \in 1..MaxConversions : conversions[c].stage \in {"idle", "settled"}
    /\ conversions[1].stage = "settled"
    /\ rendered.mounted
    /\ ~rendered.scheduled

\* the run started last
LatestConversion ==
    CHOOSE c \in 1..MaxConversions :
        /\ conversions[c].stage # "idle"
        /\ \A j \in (c + 1)..MaxConversions : conversions[j].stage = "idle"

\* C30: once all conversions in flight have settled, the displayed rate,
\* convertedAmount and error are the outcome of the conversion for the amount
\* and currency pair selected last; a slower response for earlier inputs
\* never overwrites the result of a later request.
C30_LatestConversionDisplayed ==
    Settled =>
        LET last == conversions[LatestConversion]
        IN  /\ last.amount = amount
            /\ last.fromCurrency = fromCurrency
            /\ last.toCurrency = toCurrency
            /\ rendered.result.rate = last.outcome.rate
            /\ rendered.result.convertedAmount = last.outcome.convertedAmount
            /\ rendered.result.error = last.outcome.error

(***************************************************************************)
(* The first scenario: 25000 at 7.5% over 5 years                          *)
(***************************************************************************)
\* the fraction x of whole numbers rounds to cents hundredths: cents - 1/2 <=
\* 100 * x < cents + 1/2
RoundsTo(x, cents) ==
    LET twoHundredNum == BigTimes(x[1], 200)
    IN  /\ ~BigLess(twoHundredNum, BigTimes(x[2], 2 * cents - 1))
        /\ BigLess(twoHundredNum, BigTimes(x[2], 2 * cents + 1))

\* calculateLoanPayment has returned for the loan of the first scenario
ScenarioReturned ==
    /\ pc = "scenarioReturned"
    /\ principal = Num(25000)
    /\ annualRate = <<15, 2>>
    /\ years = Num(5)

\* C26: for principal = 25000, rate = 7.5% and years = 5, calculateLoanPayment
\* yields monthlyPayment = 501.09 and totalInterest = 5565.40 when rounded
\* to 2 decimals.
C26_Scenario ==
    ScenarioReturned =>
        /\ RoundsTo(scenarioResult.monthlyPayment, 50109)
        /\ RoundsTo(scenarioResult.totalInterest, 556540)

\* C26 as amended: the same loan yields monthlyPayment = 500.95 and
\* totalInterest = 5056.92 when rounded to 2 decimals.
C26_ScenarioOfTheFormula ==
    ScenarioReturned =>
        /\ RoundsTo(scenarioResult.monthlyPayment, 50095)
        /\ RoundsTo(scenarioResult.totalInterest, 505692)

\* the payment of the scenario was computed from the power of 60 factors
C26_Witness ==
    /\ ScenarioReturned
    /\ power.k = 60
    /\ scenarioResult.called
    /\ RoundsTo(scenarioResult.monthlyPayment, 50095)

====
